---- MODULE Spec2Model ----
\* tinypng-compress: the batch engine (BatchProcessor, Semaphore, CircuitBreaker,
\* RateMonitor), the per-file protocol (backupFile, compressFile,
\* compressWithRetry), the directory command and the ConcurrencyManager.
\*
\* JavaScript runs one callback at a time.  An action of this model is one
\* such run: from the event that starts it (a call, a timer, a response of the
\* service, the completion of a file operation) to the next await that has to
\* wait for the outside world.  Continuations of promises that are already
\* resolved (the microtask queue) run before any other event: the variable
\* microtasks holds them, and every other action waits for it to be empty.
EXTENDS Integers, Sequences, FiniteSets, TLC

\* ---------------------------------------------------------------- bounds
MaxFiles == 6          \* files handed to one processBatch call when maxConcurrent = 1
MaxConcFiles == 3      \* files handed to one processBatch call when maxConcurrent > 1
MaxConc == 2           \* config.maxConcurrent ranges over 1..MaxConc
MaxRemaining == 2      \* compressions left on the key at start: 0..MaxRemaining
MaxDirFiles == 2       \* image files in the directory given to compressDirCommand
MaxRuns == 2           \* runs of compressDirCommand on the same directory
MaxTasks == 3          \* calls of ConcurrencyManager.executeWithConcurrency
MaxTicks == 2          \* the clock reaches at most MaxTicks * TickMs
MaxKeys == 2           \* keys in config.apiKeys: 1..MaxKeys
MaxRequired == 2       \* requiredCompressions ranges over 0..MaxRequired
MaxChunkFiles == 11        \* files of a batch that needs a second chunk: 11..MaxChunkFiles
MaxEvents == 4             \* calls made on one RateMonitor or RateLimiter
MaxRetryAttempts == 4      \* retryAttempts of the configuration: 1..MaxRetryAttempts
DayParts == 2          \* instants told apart within one day
MonthDays == 2         \* days in a month

\* ----------------------------------------------------- program constants
Limit == 500               \* monthly limit of a key
failureThreshold == 5      \* CircuitBreaker.failureThreshold
timeoutMs == 30000         \* CircuitBreaker.timeoutMs
DefaultMaxRetries == 3     \* compressWithRetry(..., maxRetries = 3)
DefaultRetryAttempts == 3  \* this.retryAttempts = config.retryAttempts || 3
ChunkFactor == 10          \* batchSize = min(files.length, maxConcurrent * 10)
TickMs == 15500            \* granularity of the model's clock

Null == "null"

Min(a, b) == IF a < b THEN a ELSE b

\* ------------------------------------------------------------------ paths
\* A path is dir/base[_stamp].ext, with '.tmp' appended when tmp is TRUE.
BaseNames == <<"a", "b", "c", "d", "e", "f", "g", "h">>

MkPath(d, b, e) == [dir |-> d, base |-> b, stamp |-> 0, ext |-> e, tmp |-> FALSE]

\* compressFile: const tempPath = inputPath + '.tmp'
TempPath(p) == [p EXCEPT !.tmp = TRUE]

\* compressFile: newExtension and outputPath
NewExtension(convert) == IF convert = "jpeg" THEN "jpg" ELSE convert

OutputPath(inputPath, convert) ==
  IF convert # Null THEN [inputPath EXCEPT !.ext = NewExtension(convert)]
  ELSE inputPath

\* ------------------------------------------------------------ file system
\* fs maps the paths that exist to [data, size, mtime]; data is the history
\* of the bytes: the name of the image and the transforms applied to it.
Exists(f, p) == p \in DOMAIN f

FsWrite(f, p, c) == [q \in DOMAIN f \cup {p} |-> IF q = p THEN c ELSE f[q]]

FsRemove(f, p) == [q \in DOMAIN f \ {p} |-> f[q]]

\* fs.move(src, dest, { overwrite: true })
FsMove(f, src, dest) ==
  IF src = dest THEN f ELSE FsRemove(FsWrite(f, dest, f[src]), src)

\* What the service sends back for the bytes it was given.
Tinified(c, convert, t) ==
  [data |-> Append(c.data, IF convert = Null THEN "tiny" ELSE convert),
   size |-> IF c.size > 1 THEN c.size - 1 ELSE c.size,
   mtime |-> t]

VARIABLES
  driver,       \* which entry point this run exercises
  build,        \* which of the two compression/index.js of the sources is installed
  now,          \* Date.now()
  fs,           \* the file system
  files,        \* the files argument of processBatch
  options,      \* the options argument
  apiKey,       \* the apiKey argument (an element of config.apiKeys)
  svcCount,     \* the service's own usage counter of the key
  tinifyCount,  \* tinify.compressionCount, one global of the client library
  bp,           \* the BatchProcessor object
  results,      \* the results object of processBatch
  cmd,          \* compressDirCommand: its position and its locals
  cm,           \* the ConcurrencyManager object and the calls made to it
  pcBatch,      \* where processBatch is
  loopI,        \* the loop variable i of processBatch
  pc,           \* where each processFileWithConcurrency call is
  attempt,      \* compressWithRetry's loop variable, per call
  req,          \* per call: the bytes uploaded and the Compression-Count of the response
  microtasks,   \* continuations ready to run
  slots,        \* per call: acquires completed and releases done
  config,       \* config.apiKeys of tinypng.config.json
  clock,        \* new Date(): the instant, in parts of a day since a UTC midnight
  tz,           \* the offset of local time from UTC, in parts of a day
  sel,          \* what the last call on the configuration returned
  rate          \* the RateMonitor or RateLimiter exercised on its own

keyVars == <<config, clock, tz, sel, rate>>

vars == <<keyVars, driver, build, cmd, cm, now, fs, files, options, apiKey, svcCount, tinifyCount, bp,
          results, pcBatch, loopI, pc, attempt, req, microtasks, slots>>

N == Len(files)
Items == 1..N

\* -------------------------------------------------------------- Semaphore
NewSemaphore(maxConcurrent) ==
  [maxConcurrent |-> maxConcurrent, current |-> 0, queue |-> <<>>]

\* a faulty variant: the limit test off by one
SemaphoreAcquireOffByOne(sem, f) ==
  IF sem.current <= sem.maxConcurrent
  THEN [sem |-> [sem EXCEPT !.current = @ + 1], granted |-> TRUE]
  ELSE [sem |-> [sem EXCEPT !.queue = Append(@, f)], granted |-> FALSE]

\* Semaphore.acquire(): the executor of the promise
SemaphoreAcquire(sem, f) ==
  IF sem.current < sem.maxConcurrent
  THEN [sem |-> [sem EXCEPT !.current = @ + 1], granted |-> TRUE]
  ELSE [sem |-> [sem EXCEPT !.queue = Append(@, f)], granted |-> FALSE]

\* a faulty variant: release() hands the slot over but never gives it back
SemaphoreReleaseKeeps(sem) ==
  IF Len(sem.queue) > 0
  THEN [sem |-> [sem EXCEPT !.queue = Tail(@)], woken |-> <<Head(sem.queue)>>]
  ELSE [sem |-> sem, woken |-> <<>>]

\* a faulty variant: release() frees the slot it hands to the next waiter
SemaphoreReleaseFrees(sem) ==
  LET s1 == [sem EXCEPT !.current = @ - 1]
  IN IF Len(s1.queue) > 0
     THEN [sem |-> [s1 EXCEPT !.queue = Tail(@)], woken |-> <<Head(s1.queue)>>]
     ELSE [sem |-> s1, woken |-> <<>>]

\* Semaphore.release()
SemaphoreRelease(sem) ==
  LET s1 == [sem EXCEPT !.current = @ - 1]
  IN IF Len(s1.queue) > 0
     THEN [sem |-> [s1 EXCEPT !.current = @ + 1, !.queue = Tail(@)],
           woken |-> <<Head(s1.queue)>>]
     ELSE [sem |-> s1, woken |-> <<>>]

\* --------------------------------------------------------- CircuitBreaker
NewCircuitBreaker ==
  [state |-> "CLOSED", consecutiveFailures |-> 0, lastFailureTime |-> Null]

\* CircuitBreaker.shouldBlock(): the answer and the breaker it leaves
ShouldBlock(cb, t) ==
  IF cb.state = "OPEN"
  THEN IF t - cb.lastFailureTime > timeoutMs
       THEN [block |-> FALSE, cb |-> [cb EXCEPT !.state = "HALF_OPEN"]]
       ELSE [block |-> TRUE, cb |-> cb]
  ELSE [block |-> FALSE, cb |-> cb]

CbRecordSuccess(cb) ==
  [cb EXCEPT !.consecutiveFailures = 0, !.state = "CLOSED"]

\* a faulty variant: the breaker opens one failure late
CbRecordFailureLate(cb, t) ==
  LET n == cb.consecutiveFailures + 1
  IN [state |-> IF n > failureThreshold THEN "OPEN" ELSE cb.state,
      consecutiveFailures |-> n,
      lastFailureTime |-> t]

CbRecordFailure(cb, t) ==
  LET n == cb.consecutiveFailures + 1
  IN [state |-> IF n >= failureThreshold THEN "OPEN" ELSE cb.state,
      consecutiveFailures |-> n,
      lastFailureTime |-> t]

\* ------------------------------------------------------------ RateMonitor
\* responses and failures are kept as their lengths.
NewRateMonitor ==
  [responses |-> 0, failures |-> 0, totalRequests |-> 0, peakConcurrency |-> 0]

RmRecordSuccess(rm) ==
  [rm EXCEPT !.responses = Min(@ + 1, 100), !.totalRequests = @ + 1]

RmRecordFailure(rm) == [rm EXCEPT !.failures = Min(@ + 1, 50)]

\* --------------------------------------------------------- BatchProcessor
NewBatchProcessor(maxConcurrent) ==
  [maxConcurrent |-> maxConcurrent,
   activePromises |-> {},
   semaphore |-> NewSemaphore(maxConcurrent),
   rateMonitor |-> NewRateMonitor,
   circuitBreaker |-> NewCircuitBreaker,
   stats |-> [processed |-> 0, successful |-> 0, failed |-> 0, totalFiles |-> 0],
   retryAttempts |-> DefaultRetryAttempts]

\* BatchProcessor.updateStats
UpdateStats(stats, success) ==
  [stats EXCEPT !.processed = @ + 1,
                !.successful = IF success THEN @ + 1 ELSE @,
                !.failed = IF success THEN @ ELSE @ + 1]

\* processBatch: the results object
NewResults(used, maxConcurrent) ==
  [successful |-> <<>>,
   failed |-> <<>>,
   finalCompressionCount |-> used,
   concurrentMetrics |-> [maxConcurrent |-> maxConcurrent,
                          peakConcurrency |-> 0,
                          totalRequests |-> 0]]

\* a faulty variant: the whole set is scheduled at once
BatchSizeWhole == N

\* processBatch: const batchSize = Math.min(files.length, this.maxConcurrent * 10)
BatchSize == Min(N, bp.maxConcurrent * ChunkFactor)

\* processBatch: files.slice(i, i + batchSize), as indices into files
Chunk(i) == (i + 1)..Min(i + BatchSize, N)

Terminal(f) == pc[f] \in {"done", "failed"}

\* a faulty variant: Promise.all: rejects as soon as one call rejects
PromiseAll(chunk) ==
  IF \E f \in chunk : pc[f] = "failed" THEN "rejected"
  ELSE IF \A f \in chunk : Terminal(f) THEN "fulfilled"
  ELSE "pending"

\* Promise.allSettled over the calls of a chunk
PromiseAllSettled(chunk) ==
  IF \A f \in chunk : Terminal(f) THEN "fulfilled" ELSE "pending"

\* batch.map(file => this.processFileWithConcurrency(...)): every call runs up
\* to its first await, that is through semaphore.acquire(), in input order.
RECURSIVE AcquireAll(_, _, _, _)
AcquireAll(sem, f, last, granted) ==
  IF f > last THEN [sem |-> sem, granted |-> granted]
  ELSE LET a == SemaphoreAcquire(sem, f)
       IN AcquireAll(a.sem, f + 1, last,
                     IF a.granted THEN Append(granted, f) ELSE granted)

InSeq(s, x) == \E k \in 1..Len(s) : s[k] = x

\* processFileWithConcurrency, lines after compressWithRetry returned
SuccessPath(b, res, path, result) ==
  [bp |-> [b EXCEPT !.rateMonitor = RmRecordSuccess(@),
                    !.circuitBreaker = CbRecordSuccess(@),
                    !.stats = UpdateStats(@, TRUE)],
   results |-> [res EXCEPT
                  !.successful = Append(@, [file |-> path,
                                            outputPath |-> result.outputPath,
                                            compressionCount |-> result.compressionCount]),
                  !.finalCompressionCount = result.compressionCount]]

\* processFileWithConcurrency, the catch block
CatchPath(b, res, path, err, t) ==
  [bp |-> [b EXCEPT !.rateMonitor = RmRecordFailure(@),
                    !.circuitBreaker = CbRecordFailure(@, t),
                    !.stats = UpdateStats(@, FALSE)],
   results |-> [res EXCEPT !.failed = Append(@, [file |-> path, error |-> err])]]

\* processFileWithConcurrency, the finally block
FinallyPath(b, path) ==
  LET r == SemaphoreRelease(b.semaphore)
  IN [bp |-> [b EXCEPT !.activePromises = @ \ {path}, !.semaphore = r.sem],
      woken |-> r.woken,
      releases |-> 1]

\* err is the error the latest failed attempt of compressWithRetry caught
NoRequest == [data |-> Null, count |-> Null, err |-> Null]

\* The call f settles (st is "done" or "failed"); fin is its finally block;
\* mt is the microtask queue this run leaves behind it.
Settle(f, st, fin, mt) ==
  /\ bp' = fin.bp
  /\ microtasks' = mt \o fin.woken
  /\ pc' = [g \in Items |-> IF g = f THEN st
                            ELSE IF InSeq(fin.woken, g) THEN "acquired"
                            ELSE pc[g]]
  /\ slots' = [g \in Items |->
                 IF g = f THEN [slots[g] EXCEPT !.released = @ + fin.releases]
                 ELSE IF InSeq(fin.woken, g) THEN [slots[g] EXCEPT !.acquired = @ + 1]
                 ELSE slots[g]]
  /\ attempt' = [attempt EXCEPT ![f] = 0]
  /\ req' = [req EXCEPT ![f] = NoRequest]

\* a faulty variant: the release sits at the end of the try block, not in finally
ItemFailsNoRelease(f, b, err, mt) ==
  LET c == CatchPath(b, results, files[f].path, err, now)
  IN /\ results' = c.results
     /\ Settle(f, "failed", [bp |-> c.bp, woken |-> <<>>, releases |-> 0], mt)

\* processFileWithConcurrency: an error thrown in the try block is caught,
\* recorded and rethrown through the finally block
ItemFails(f, b, err, mt) ==
  LET c == CatchPath(b, results, files[f].path, err, now)
  IN /\ results' = c.results
     /\ Settle(f, "failed", FinallyPath(c.bp, files[f].path), mt)

\* processFileWithConcurrency: compressWithRetry returned result
ItemSucceeds(f, result) ==
  LET s == SuccessPath(bp, results, files[f].path, result)
  IN /\ results' = s.results
     /\ Settle(f, "done", FinallyPath(s.bp, files[f].path), <<>>)

\* a faulty variant: a ClientError is retried like a ServerError
RetryDecisionRetriesClient(err, att, maxRetries) ==
  IF err = "AccountError" THEN "throw"
  ELSE IF att = maxRetries THEN "throw"
  ELSE "retry"

\* compressWithRetry, the catch block: rethrow or wait and try again
RetryDecision(err, att, maxRetries) ==
  IF err = "AccountError" THEN "throw"
  ELSE IF err = "ClientError" THEN "throw"
  ELSE IF att = maxRetries THEN "throw"
  ELSE "retry"

\* The errors the service answers with here.  compressWithRetry treats a
\* ClientError as it treats an AccountError, and a ConnectionError as a
\* ServerError.
ServiceErrors == {"AccountError", "ServerError"}

\* ---------------------------------------------------------------- actions
\* processBatch, up to the for loop
ProcessBatch ==
  /\ pcBatch = "called"
  /\ bp' = [bp EXCEPT !.stats.totalFiles = N]
  /\ results' = NewResults(apiKey.compressions_used, bp.maxConcurrent)
  /\ loopI' = 0
  /\ pcBatch' = "loop"
  /\ UNCHANGED <<keyVars, driver, build, cmd, cm, now, fs, files, options, apiKey, svcCount, tinifyCount,
                 pc, attempt, req, microtasks, slots>>

\* one iteration of the for loop, up to await Promise.allSettled
DispatchChunk ==
  /\ pcBatch = "loop"
  /\ loopI < N
  /\ LET a == AcquireAll(bp.semaphore, loopI + 1, Min(loopI + BatchSize, N), <<>>)
     IN /\ bp' = [bp EXCEPT !.semaphore = a.sem]
        /\ microtasks' = microtasks \o a.granted
        /\ pc' = [g \in Items |->
                    IF g \in Chunk(loopI)
                    THEN (IF InSeq(a.granted, g) THEN "acquired" ELSE "queued")
                    ELSE pc[g]]
        /\ slots' = [g \in Items |->
                       IF InSeq(a.granted, g) THEN [slots[g] EXCEPT !.acquired = @ + 1]
                       ELSE slots[g]]
  /\ pcBatch' = "awaiting"
  /\ UNCHANGED <<keyVars, driver, build, cmd, cm, now, fs, files, options, apiKey, svcCount, tinifyCount,
                 results, loopI, attempt, req>>

\* await Promise.allSettled(processingPromises) resumes
ChunkSettled ==
  /\ pcBatch = "awaiting"
  /\ microtasks = <<>>
  /\ LET status == PromiseAllSettled(Chunk(loopI))
     IN /\ status # "pending"
        /\ IF status = "fulfilled"
           THEN /\ loopI' = loopI + BatchSize
                /\ pcBatch' = "loop"
           ELSE /\ loopI' = loopI
                /\ pcBatch' = "rejected"
  /\ UNCHANGED <<keyVars, driver, build, cmd, cm, now, fs, files, options, apiKey, svcCount, tinifyCount,
                 bp, results, pc, attempt, req, microtasks, slots>>

\* processBatch after the loop: calculateConcurrentMetrics and return
ReturnResults ==
  /\ pcBatch = "loop"
  /\ loopI >= N
  /\ results' = [results EXCEPT !.concurrentMetrics =
                   [maxConcurrent |-> bp.maxConcurrent,
                    peakConcurrency |-> bp.rateMonitor.peakConcurrency,
                    totalRequests |-> bp.rateMonitor.totalRequests]]
  /\ pcBatch' = "returned"
  /\ UNCHANGED <<keyVars, driver, build, cmd, cm, now, fs, files, options, apiKey, svcCount, tinifyCount,
                 bp, loopI, pc, attempt, req, microtasks, slots>>

\* processFileWithConcurrency resumes after await this.semaphore.acquire()
Resume ==
  /\ microtasks # <<>>
  /\ LET f == Head(microtasks)
         sb == ShouldBlock(bp.circuitBreaker, now)
         b1 == [bp EXCEPT !.activePromises = @ \cup {files[f].path},
                          !.circuitBreaker = sb.cb]
     IN /\ pc[f] = "acquired"
        /\ IF sb.block
           THEN ItemFails(f, b1, "CircuitOpen", Tail(microtasks))
           ELSE IF results.finalCompressionCount >= Limit
           THEN ItemFails(f, b1, "LimitReached", Tail(microtasks))
           ELSE /\ bp' = b1
                /\ pc' = [pc EXCEPT ![f] = "delay"]
                /\ microtasks' = Tail(microtasks)
                /\ UNCHANGED <<results, slots, attempt, req>>
  /\ UNCHANGED <<keyVars, driver, build, cmd, cm, now, fs, files, options, apiKey, svcCount, tinifyCount,
                 pcBatch, loopI>>

\* a faulty variant: the catch block rethrows without removing the temporary file
CleanupTempKept(f, inputPath) == f

\* compressFile, the catch block: remove inputPath + '.tmp' if it is there
CleanupTemp(f, inputPath) ==
  IF Exists(f, TempPath(inputPath)) THEN FsRemove(f, TempPath(inputPath)) ELSE f

\* The sources hold compressFile twice.  The one of
\* src/compression/index.js moves the temporary file onto inputPath whatever
\* options.convert is, and its result has no outputPath.
Builds == {"index.js", "part_009"}

\* compressFile: move the temporary file to its place and, in part_009 after
\* a conversion to another path, remove the original
InstallResult(f, inputPath, convert, b) ==
  IF b = "index.js" THEN FsMove(f, TempPath(inputPath), inputPath)
  ELSE LET outputPath == OutputPath(inputPath, convert)
           moved == FsMove(f, TempPath(inputPath), outputPath)
       IN IF convert # Null /\ inputPath # outputPath
          THEN FsRemove(moved, inputPath)
          ELSE moved

\* compressFile: the outputPath of the result
ResultOutputPath(inputPath, convert, b) ==
  IF b = "index.js" THEN Null ELSE OutputPath(inputPath, convert)

\* compressWithRetry caught err on attempt att
AttemptFailed(f, err, att) ==
  IF RetryDecision(err, att, DefaultMaxRetries) = "throw"
  THEN ItemFails(f, bp, err, <<>>)
  ELSE /\ pc' = [pc EXCEPT ![f] = "retryDelay"]
       /\ attempt' = [attempt EXCEPT ![f] = att]
       /\ req' = [req EXCEPT ![f] = [NoRequest EXCEPT !.err = err]]
       /\ UNCHANGED <<bp, results, microtasks, slots>>

\* compressFile up to processedSource.toFile(tempPath): fs.statSync(inputPath)
\* throws when the file is gone, otherwise the upload starts
BeginAttempt(f, att) ==
  IF Exists(fs, files[f].path)
  THEN /\ pc' = [pc EXCEPT ![f] = "request"]
       /\ attempt' = [attempt EXCEPT ![f] = att]
       /\ req' = [req EXCEPT ![f] = [data |-> fs[files[f].path], count |-> Null,
                                     err |-> req[f].err]]
       /\ UNCHANGED <<bp, results, microtasks, slots>>
  ELSE AttemptFailed(f, "ENOENT", att)

\* the timer of await this.delay(...) fires: compressWithRetry, attempt 1
DelayElapsed(f) ==
  /\ microtasks = <<>>
  /\ pc[f] = "delay"
  /\ BeginAttempt(f, 1)
  /\ UNCHANGED <<keyVars, driver, build, cmd, cm, now, fs, files, options, apiKey, svcCount, tinifyCount,
                 pcBatch, loopI>>

\* the timer of await delay(1000 * attempt) fires: the next attempt
RetryDelayElapsed(f) ==
  /\ microtasks = <<>>
  /\ pc[f] = "retryDelay"
  /\ BeginAttempt(f, attempt[f] + 1)
  /\ UNCHANGED <<keyVars, driver, build, cmd, cm, now, fs, files, options, apiKey, svcCount, tinifyCount,
                 pcBatch, loopI>>

\* the service compresses the upload and counts it; its response is on its way
ServiceSuccess(f) ==
  /\ microtasks = <<>>
  /\ pc[f] = "request"
  /\ svcCount < Limit
  /\ svcCount' = svcCount + 1
  /\ req' = [req EXCEPT ![f].count = svcCount + 1]
  /\ pc' = [pc EXCEPT ![f] = "response"]
  /\ UNCHANGED <<keyVars, driver, build, cmd, cm, now, fs, files, options, apiKey, tinifyCount, bp, results,
                 pcBatch, loopI, attempt, microtasks, slots>>

\* the request fails with err; toFile may have left a partial temporary file
ServiceError(f, err, partial) ==
  /\ microtasks = <<>>
  /\ pc[f] = "request"
  /\ LET p == files[f].path
         f1 == IF partial
               THEN FsWrite(fs, TempPath(p), [data |-> <<"partial">>, size |-> 1, mtime |-> now])
               ELSE fs
     IN fs' = CleanupTemp(f1, p)
  /\ AttemptFailed(f, err, attempt[f])
  /\ UNCHANGED <<keyVars, driver, build, cmd, cm, now, files, options, apiKey, svcCount, tinifyCount,
                 pcBatch, loopI>>

\* the response arrives: the client stores its Compression-Count, toFile
\* writes the temporary file, and compressFile awaits fs.move
ResponseArrives(f) ==
  /\ microtasks = <<>>
  /\ pc[f] = "response"
  /\ tinifyCount' = req[f].count
  /\ fs' = FsWrite(fs, TempPath(files[f].path),
                   Tinified(req[f].data, options.convert, now))
  /\ pc' = [pc EXCEPT ![f] = "moving"]
  /\ UNCHANGED <<keyVars, driver, build, cmd, cm, now, files, options, apiKey, svcCount, bp, results,
                 pcBatch, loopI, attempt, req, microtasks, slots>>

\* fs.move is done: compressFile returns, and processFileWithConcurrency
\* runs from the return of compressWithRetry to the end of its finally block
MoveDone(f) ==
  /\ microtasks = <<>>
  /\ pc[f] = "moving"
  /\ fs' = InstallResult(fs, files[f].path, options.convert, build)
  /\ ItemSucceeds(f, [outputPath |-> ResultOutputPath(files[f].path, options.convert, build),
                      compressionCount |-> tinifyCount])
  /\ UNCHANGED <<keyVars, driver, build, cmd, cm, now, files, options, apiKey, svcCount, tinifyCount,
                 pcBatch, loopI>>

\* the objects of the entry points a run does not exercise
NoCommand ==
  [pc |-> "none", run |-> 0, maxConcurrent |-> 1, validFiles |-> <<>>,
   availableCompressions |-> 0, bkI |-> 0,
   backupResults |-> [created |-> 0, skipped |-> 0, versioned |-> 0, errors |-> <<>>]]

NoManager ==
  [maxConcurrent |-> 1, activeRequests |-> {}, requestQueue |-> <<>>,
   microtasks |-> <<>>, pc |-> <<>>, slots |-> <<>>]

\* -------------------------------------------------- processBatch on its own
\* no configuration is read
NoSelection ==
  [op |-> Null, required |-> 0, at |-> 0, kind |-> Null, key |-> 0, updated |-> FALSE]

\* no RateMonitor or RateLimiter is exercised on its own
NoRate == [kind |-> Null]

NoKeys ==
  /\ rate = NoRate
  /\ config = <<>>
  /\ clock = 0
  /\ tz = 0
  /\ sel = NoSelection

InitBatch ==
  /\ driver = "batch"
  /\ build = "index.js"
  /\ now = TickMs
  /\ \E mc \in 1..MaxConc, n \in 1..MaxFiles :
       /\ mc > 1 => n <= MaxConcFiles
       /\ bp = NewBatchProcessor(mc)
       /\ files = [i \in 1..n |-> [path |-> MkPath("root", BaseNames[i], "png"), size |-> 2]]
       /\ pc = [i \in 1..n |-> "new"]
       /\ attempt = [i \in 1..n |-> 0]
       /\ req = [i \in 1..n |-> NoRequest]
       /\ slots = [i \in 1..n |-> [acquired |-> 0, released |-> 0]]
       /\ fs = [p \in {MkPath("root", BaseNames[i], "png") : i \in 1..n} |->
                  [data |-> <<p.base>>, size |-> 2, mtime |-> 0]]
  /\ options = [convert |-> Null, recursive |-> FALSE]
  /\ cmd = NoCommand
  /\ cm = NoManager
  /\ \E r \in 0..MaxRemaining :
       /\ apiKey = [name |-> "key1", compressions_used |-> Limit - r,
                    status |-> IF r = 0 THEN "limit_reached" ELSE "active"]
       /\ svcCount = Limit - r
  /\ tinifyCount = Null
  /\ results = Null
  /\ pcBatch = "called"
  /\ loopI = 0
  /\ microtasks = <<>>
  /\ NoKeys

NextBatch ==
  \/ ProcessBatch
  \/ DispatchChunk
  \/ ChunkSettled
  \/ ReturnResults
  \/ Resume
  \/ \E f \in Items :
       \/ DelayElapsed(f)
       \/ RetryDelayElapsed(f)
       \/ ServiceSuccess(f)
       \/ \E err \in ServiceErrors, partial \in BOOLEAN : ServiceError(f, err, partial)
       \/ ResponseArrives(f)
       \/ MoveDone(f)

Spec == InitBatch /\ [][NextBatch]_vars

\* ------------------------------------------------- compressDirCommand
SupportedExtensions == {"png", "jpg", "jpeg", "webp", "avif"}

ExtOrder == <<"avif", "jpeg", "jpg", "png", "webp">>

Index(s, x) == CHOOSE k \in 1..Len(s) : s[k] = x

\* a.name.localeCompare(b.name) < 0; a name with a '_<timestamp>' suffix
\* sorts before the name without it
NameLess(p, q) ==
  LET kp == <<Index(BaseNames, p.base), IF p.stamp = 0 THEN 1 ELSE 0, p.stamp,
              Index(ExtOrder, p.ext)>>
      kq == <<Index(BaseNames, q.base), IF q.stamp = 0 THEN 1 ELSE 0, q.stamp,
              Index(ExtOrder, q.ext)>>
  IN \E k \in 1..4 : kp[k] < kq[k] /\ \A j \in 1..(k - 1) : kp[j] = kq[j]

\* the order of the sorted scan: by name; the sort is stable, and
\* scanDirectory reaches the files of the directory before those of original/
ScanLess(p, q) ==
  \/ NameLess(p, q)
  \/ ~NameLess(q, p) /\ p.dir = "root" /\ q.dir = "original"

RECURSIVE SortPaths(_)
SortPaths(S) ==
  IF S = {} THEN <<>>
  ELSE LET m == CHOOSE p \in S : \A q \in S \ {p} : ScanLess(p, q)
       IN <<m>> \o SortPaths(S \ {m})

\* scanForImages(directory, recursive)
ScanForImages(f, recursive) ==
  LET found == {p \in DOMAIN f : /\ p.dir = "root" \/ recursive
                                 /\ ~p.tmp
                                 /\ p.ext \in SupportedExtensions}
      sorted == SortPaths(found)
  IN [k \in 1..Len(sorted) |-> [path |-> sorted[k], size |-> f[sorted[k]].size]]

\* isValidImageHeader: the first bytes of the file are those of its format
IsValidImageHeader(c) == Head(c.data) # "corrupt"

\* a faulty variant: the header of the file is not looked at
ValidateFileForProcessingNoHeader(f, filePath) ==
  IF ~Exists(f, filePath) THEN {"File not found"}
  ELSE IF filePath.ext \notin SupportedExtensions THEN {"Unsupported format"}
  ELSE {}

\* validateFileForProcessing: the list of errors, as a set
ValidateFileForProcessing(f, filePath) ==
  IF ~Exists(f, filePath) THEN {"File not found"}
  ELSE (IF filePath.ext \notin SupportedExtensions THEN {"Unsupported format"} ELSE {})
       \cup (IF ~IsValidImageHeader(f[filePath]) THEN {"Invalid or corrupted image file"}
             ELSE {})

\* backupFile: path.join(backupDirectory, path.basename(filePath))
BackupPath(filePath) == [filePath EXCEPT !.dir = "original"]

\* backupFile up to its await: what it will do, and the path it will copy to
BackupFile(f, filePath, t) ==
  LET backupPath == BackupPath(filePath)
  IN IF Exists(f, backupPath)
     THEN IF /\ f[filePath].size = f[backupPath].size
             /\ f[filePath].mtime = f[backupPath].mtime
          THEN [kind |-> "skipped", path |-> backupPath]
          ELSE [kind |-> "versioned", path |-> [backupPath EXCEPT !.stamp = t]]
     ELSE [kind |-> "created", path |-> backupPath]

\* fs.copy(src, dest, { preserveTimestamps: true })
FsCopy(f, src, dest) == FsWrite(f, dest, f[src])

NoBackupResults == [created |-> 0, skipped |-> 0, versioned |-> 0, errors |-> <<>>]

\* compressDirCommand up to await backupFiles(validFiles, backupDir)
StartRun ==
  /\ driver = "dir"
  /\ cmd.pc = "idle"
  /\ cmd.run < MaxRuns
  /\ LET imageFiles == ScanForImages(fs, options.recursive)
         validFiles == SelectSeq(imageFiles,
                         LAMBDA x : ValidateFileForProcessing(fs, x.path) = {})
     IN cmd' = IF Len(imageFiles) = 0 \/ Len(validFiles) = 0
               THEN [cmd EXCEPT !.run = @ + 1]
               ELSE [cmd EXCEPT !.pc = "backup",
                                !.validFiles = validFiles,
                                !.availableCompressions = Limit - apiKey.compressions_used,
                                !.bkI = 1,
                                !.backupResults = NoBackupResults]
  /\ UNCHANGED <<keyVars, driver, build, cm, now, fs, files, options, apiKey, svcCount, tinifyCount,
                 bp, results, pcBatch, loopI, pc, attempt, req, microtasks, slots>>

\* backupFiles: one iteration of the loop; copied says whether fs.copy succeeded
BackupNext(copied) ==
  /\ driver = "dir"
  /\ cmd.pc = "backup"
  /\ cmd.bkI <= Len(cmd.validFiles)
  /\ LET file == cmd.validFiles[cmd.bkI]
         plan == BackupFile(fs, file.path, now)
         br == cmd.backupResults
     IN IF plan.kind = "skipped"
        THEN /\ copied
             /\ fs' = fs
             /\ cmd' = [cmd EXCEPT !.bkI = @ + 1, !.backupResults.skipped = @ + 1]
        ELSE IF copied
        THEN /\ fs' = FsCopy(fs, file.path, plan.path)
             /\ cmd' = [cmd EXCEPT !.bkI = @ + 1,
                          !.backupResults =
                             IF plan.kind = "versioned"
                             THEN [br EXCEPT !.versioned = @ + 1]
                             ELSE [br EXCEPT !.created = @ + 1]]
        ELSE /\ fs' = fs
             /\ cmd' = [cmd EXCEPT !.bkI = @ + 1,
                          !.backupResults.errors = Append(@, file.path)]
  /\ UNCHANGED <<keyVars, driver, build, cm, now, files, options, apiKey, svcCount, tinifyCount,
                 bp, results, pcBatch, loopI, pc, attempt, req, microtasks, slots>>

\* compressDirCommand after backupFiles returned: the slice, and
\* processFilesWithBatchProcessor up to the call of processBatch
StartBatch ==
  /\ driver = "dir"
  /\ cmd.pc = "backup"
  /\ cmd.bkI > Len(cmd.validFiles)
  /\ LET filesToProcess ==
           SubSeq(cmd.validFiles, 1, Min(cmd.availableCompressions, Len(cmd.validFiles)))
         n == Len(filesToProcess)
     IN /\ files' = filesToProcess
        /\ pc' = [i \in 1..n |-> "new"]
        /\ attempt' = [i \in 1..n |-> 0]
        /\ req' = [i \in 1..n |-> NoRequest]
        /\ slots' = [i \in 1..n |-> [acquired |-> 0, released |-> 0]]
  /\ bp' = NewBatchProcessor(cmd.maxConcurrent)
  /\ pcBatch' = "called"
  /\ loopI' = 0
  /\ microtasks' = <<>>
  /\ cmd' = [cmd EXCEPT !.pc = "processing"]
  /\ UNCHANGED <<keyVars, driver, build, cm, now, fs, options, apiKey, svcCount, tinifyCount, results>>

\* compressDirCommand after processBatch returned; time passes until the
\* command is run again
FinishRun ==
  /\ driver = "dir"
  /\ cmd.pc = "processing"
  /\ pcBatch = "returned"
  /\ apiKey' = [apiKey EXCEPT !.compressions_used = results.finalCompressionCount]
  /\ cmd' = [cmd EXCEPT !.pc = "idle", !.run = @ + 1]
  /\ now' = now + TickMs
  /\ UNCHANGED <<keyVars, driver, build, cm, fs, files, options, svcCount, tinifyCount, bp, results,
                 pcBatch, loopI, pc, attempt, req, microtasks, slots>>

\* The directory holds image files that were never compressed, some of them
\* with a corrupted header; the configuration has advanced.max_concurrent = 1 (concurrent batches are
\* those of InitBatch).
InitDir ==
  /\ driver = "dir"
  /\ build \in Builds
  /\ now = TickMs
  /\ \E n \in 1..MaxDirFiles : \E corrupt \in SUBSET (1..n) :
       fs = [p \in {MkPath("root", BaseNames[i], "png") : i \in 1..n} |->
               [data |-> IF Index(BaseNames, p.base) \in corrupt
                         THEN <<"corrupt", p.base>> ELSE <<p.base>>,
                size |-> 2, mtime |-> 0]]
  /\ \E convert \in {Null, "webp"}, recursive \in BOOLEAN :
       options = [convert |-> convert, recursive |-> recursive]
  /\ cmd = [NoCommand EXCEPT !.pc = "idle", !.maxConcurrent = 1]
  /\ bp = NewBatchProcessor(1)
  /\ cm = NoManager
  /\ \E r \in 0..MaxRemaining :
       /\ apiKey = [name |-> "key1", compressions_used |-> Limit - r,
                    status |-> IF r = 0 THEN "limit_reached" ELSE "active"]
       /\ svcCount = Limit - r
  /\ files = <<>>
  /\ pc = <<>>
  /\ attempt = <<>>
  /\ req = <<>>
  /\ slots = <<>>
  /\ tinifyCount = Null
  /\ results = Null
  /\ pcBatch = "idle"
  /\ loopI = 0
  /\ microtasks = <<>>
  /\ NoKeys

NextDir ==
  \/ StartRun
  \/ \E copied \in BOOLEAN : BackupNext(copied)
  \/ StartBatch
  \/ FinishRun
  \/ NextBatch

SpecDir == InitDir /\ [][NextDir]_vars

\* ------------------------------------------------- ConcurrencyManager
\* The calls of executeWithConcurrency are numbered 1..Len(cm.pc).  throttle
\* is what shouldThrottle() answers: it reads the memory of the process and
\* the clock.
Tasks == DOMAIN cm.pc

\* acquireSlot(requestId): the executor of the promise
AcquireSlot(c, t, throttle) ==
  IF Cardinality(c.activeRequests) < c.maxConcurrent /\ ~throttle
  THEN [c EXCEPT !.microtasks = Append(@, t),
                 !.pc[t] = "acquired",
                 !.slots[t].acquired = @ + 1]
  ELSE [c EXCEPT !.requestQueue = Append(@, t), !.pc[t] = "queued"]

\* a faulty variant: releaseSlot() resolves the newest waiter
ReleaseSlotNewest(c, throttle) ==
  IF Len(c.requestQueue) > 0 /\ ~throttle
  THEN LET t == c.requestQueue[Len(c.requestQueue)]
       IN [c EXCEPT !.requestQueue = SubSeq(@, 1, Len(@) - 1),
                    !.microtasks = Append(@, t),
                    !.pc[t] = "acquired",
                    !.slots[t].acquired = @ + 1]
  ELSE c

\* releaseSlot()
ReleaseSlot(c, throttle) ==
  IF Len(c.requestQueue) > 0 /\ ~throttle
  THEN LET t == Head(c.requestQueue)
       IN [c EXCEPT !.requestQueue = Tail(@),
                    !.microtasks = Append(@, t),
                    !.pc[t] = "acquired",
                    !.slots[t].acquired = @ + 1]
  ELSE c

\* adjustConcurrency: the while loop
RECURSIVE WakeWaiters(_)
WakeWaiters(c) ==
  IF Len(c.requestQueue) > 0 /\ Cardinality(c.activeRequests) < c.maxConcurrent
  THEN WakeWaiters(ReleaseSlot(c, FALSE))
  ELSE c

\* executeWithConcurrency, up to await this.acquireSlot(requestId)
ExecuteWithConcurrency(t, throttle) ==
  /\ driver = "cm"
  /\ cm.pc[t] = "new"
  /\ cm' = AcquireSlot(cm, t, throttle)
  /\ UNCHANGED <<keyVars, driver, build, cmd, now, fs, files, options, apiKey, svcCount, tinifyCount,
                 bp, results, pcBatch, loopI, pc, attempt, req, microtasks, slots>>

\* executeWithConcurrency resumes after acquireSlot, up to await this.delay
CmResume ==
  /\ driver = "cm"
  /\ cm.microtasks # <<>>
  /\ LET t == Head(cm.microtasks)
     IN cm' = [cm EXCEPT !.microtasks = Tail(@),
                         !.activeRequests = @ \cup {t},
                         !.pc[t] = "delay"]
  /\ UNCHANGED <<keyVars, driver, build, cmd, now, fs, files, options, apiKey, svcCount, tinifyCount,
                 bp, results, pcBatch, loopI, pc, attempt, req, microtasks, slots>>

\* the delay is over: task() is called
CmDelayElapsed(t) ==
  /\ driver = "cm"
  /\ cm.microtasks = <<>>
  /\ cm.pc[t] = "delay"
  /\ cm' = [cm EXCEPT !.pc[t] = "task"]
  /\ UNCHANGED <<keyVars, driver, build, cmd, now, fs, files, options, apiKey, svcCount, tinifyCount,
                 bp, results, pcBatch, loopI, pc, attempt, req, microtasks, slots>>

\* task() settles: the rest of the try block or the catch block, and finally
CmTaskSettles(t, fulfilled, throttle) ==
  /\ driver = "cm"
  /\ cm.microtasks = <<>>
  /\ cm.pc[t] = "task"
  /\ cm' = ReleaseSlot([cm EXCEPT !.activeRequests = @ \ {t},
                                  !.pc[t] = IF fulfilled THEN "done" ELSE "failed",
                                  !.slots[t].released = @ + 1],
                       throttle)
  /\ UNCHANGED <<keyVars, driver, build, cmd, now, fs, files, options, apiKey, svcCount, tinifyCount,
                 bp, results, pcBatch, loopI, pc, attempt, req, microtasks, slots>>

\* adjustConcurrency(newLimit)
AdjustConcurrency(newLimit) ==
  /\ driver = "cm"
  /\ cm.microtasks = <<>>
  /\ newLimit > 0 /\ newLimit <= 20
  /\ cm' = WakeWaiters([cm EXCEPT !.maxConcurrent = newLimit])
  /\ UNCHANGED <<keyVars, driver, build, cmd, now, fs, files, options, apiKey, svcCount, tinifyCount,
                 bp, results, pcBatch, loopI, pc, attempt, req, microtasks, slots>>

InitCm ==
  /\ driver = "cm"
  /\ build = "index.js"
  /\ now = TickMs
  /\ \E mc \in 1..MaxConc, n \in 1..MaxTasks :
       cm = [maxConcurrent |-> mc, activeRequests |-> {}, requestQueue |-> <<>>,
             microtasks |-> <<>>,
             pc |-> [t \in 1..n |-> "new"],
             slots |-> [t \in 1..n |-> [acquired |-> 0, released |-> 0]]]
  /\ cmd = NoCommand
  /\ fs = [p \in {} |-> Null]
  /\ files = <<>>
  /\ options = [convert |-> Null, recursive |-> FALSE]
  /\ apiKey = [name |-> "key1", compressions_used |-> 0, status |-> "active"]
  /\ svcCount = 0
  /\ bp = NewBatchProcessor(1)
  /\ pc = <<>>
  /\ attempt = <<>>
  /\ req = <<>>
  /\ slots = <<>>
  /\ tinifyCount = Null
  /\ results = Null
  /\ pcBatch = "idle"
  /\ loopI = 0
  /\ microtasks = <<>>
  /\ NoKeys

NextCm ==
  \/ \E t \in Tasks, throttle \in BOOLEAN : ExecuteWithConcurrency(t, throttle)
  \/ CmResume
  \/ \E t \in Tasks : CmDelayElapsed(t)
  \/ \E t \in Tasks, fulfilled \in BOOLEAN, throttle \in BOOLEAN :
       CmTaskSettles(t, fulfilled, throttle)
  \/ \E newLimit \in 1..MaxConc : AdjustConcurrency(newLimit)

\* processBatch runs and ConcurrencyManager runs
InitSlots == InitBatch \/ InitCm

NextSlots == NextBatch \/ NextCm

SpecSlots == InitSlots /\ [][NextSlots]_vars

\* ------------------------------------- ConcurrencyManager with throttling
\* cm.throttle is what shouldThrottle() would answer now: memory pressure or
\* the back-off of the rate limiter.  Both come and go with the memory of the
\* process and the clock, not with any step of the manager.
ThrottleChanges ==
  /\ driver = "cm"
  /\ cm.microtasks = <<>>
  /\ cm' = [cm EXCEPT !.throttle = ~@]
  /\ UNCHANGED <<keyVars, driver, build, cmd, now, fs, files, options, apiKey, svcCount, tinifyCount,
                 bp, results, pcBatch, loopI, pc, attempt, req, microtasks, slots>>

InitSlotsLive ==
  /\ driver = "cm"
  /\ build = "index.js"
  /\ now = TickMs
  /\ \E mc \in 1..MaxConc, n \in 1..MaxTasks, th \in BOOLEAN :
       cm = [maxConcurrent |-> mc, activeRequests |-> {}, requestQueue |-> <<>>,
             microtasks |-> <<>>,
             pc |-> [t \in 1..n |-> "new"],
             slots |-> [t \in 1..n |-> [acquired |-> 0, released |-> 0]],
             throttle |-> th]
  /\ cmd = NoCommand
  /\ fs = [p \in {} |-> Null]
  /\ files = <<>>
  /\ options = [convert |-> Null, recursive |-> FALSE]
  /\ apiKey = [name |-> "key1", compressions_used |-> 0, status |-> "active"]
  /\ svcCount = 0
  /\ bp = NewBatchProcessor(1)
  /\ pc = <<>>
  /\ attempt = <<>>
  /\ req = <<>>
  /\ slots = <<>>
  /\ tinifyCount = Null
  /\ results = Null
  /\ pcBatch = "idle"
  /\ loopI = 0
  /\ microtasks = <<>>
  /\ NoKeys

\* task() settles while shouldThrottle() answers cm.throttle
CmTaskSettlesNow(t) ==
  \E fulfilled \in BOOLEAN : CmTaskSettles(t, fulfilled, cm.throttle)

NextSlotsLive ==
  \/ \E t \in Tasks : ExecuteWithConcurrency(t, cm.throttle)
  \/ CmResume
  \/ \E t \in Tasks : CmDelayElapsed(t)
  \/ \E t \in Tasks : CmTaskSettlesNow(t)
  \/ ThrottleChanges

\* A continuation that is queued runs, a timer that was set fires, and a task
\* that was started settles; the callers and the throttling owe nothing.
SpecSlotsLive ==
  /\ InitSlotsLive
  /\ [][NextSlotsLive]_vars
  /\ WF_vars(CmResume)
  /\ \A t \in 1..MaxTasks :
       /\ WF_vars(t \in Tasks /\ CmDelayElapsed(t))
       /\ WF_vars(t \in Tasks /\ CmTaskSettlesNow(t))

\* ------------------------------------------- a BatchProcessor used again
\* processBatch is called on a BatchProcessor that earlier calls have used:
\* its circuit breaker carries the failures those calls recorded at time 0.
RECURSIVE FailuresRecorded(_, _, _)
FailuresRecorded(cb, k, t) ==
  IF k = 0 THEN cb ELSE FailuresRecorded(CbRecordFailure(cb, t), k - 1, t)

UsedBatchProcessor(maxConcurrent, k) ==
  [NewBatchProcessor(maxConcurrent) EXCEPT
     !.circuitBreaker = FailuresRecorded(NewCircuitBreaker, k, 0),
     !.stats = [processed |-> k, successful |-> 0, failed |-> k, totalFiles |-> k],
     !.rateMonitor.failures = k]

\* Date.now() advances between two events
Tick ==
  /\ microtasks = <<>>
  /\ now < TickMs * MaxTicks
  /\ now' = now + TickMs
  /\ UNCHANGED <<keyVars, driver, build, cmd, cm, fs, files, options, apiKey, svcCount, tinifyCount,
                 bp, results, pcBatch, loopI, pc, attempt, req, microtasks, slots>>

InitBreaker ==
  /\ driver = "reuse"
  /\ build = "index.js"
  /\ now = TickMs
  /\ \E n \in 1..MaxConc, k \in 0..failureThreshold :
       /\ bp = UsedBatchProcessor(2, k)       \* two calls may be in flight together
       /\ files = [i \in 1..n |-> [path |-> MkPath("root", BaseNames[i], "png"), size |-> 2]]
       /\ pc = [i \in 1..n |-> "new"]
       /\ attempt = [i \in 1..n |-> 0]
       /\ req = [i \in 1..n |-> NoRequest]
       /\ slots = [i \in 1..n |-> [acquired |-> 0, released |-> 0]]
       /\ fs = [p \in {MkPath("root", BaseNames[i], "png") : i \in 1..n} |->
                  [data |-> <<p.base>>, size |-> 2, mtime |-> 0]]
  /\ options = [convert |-> Null, recursive |-> FALSE]
  /\ cmd = NoCommand
  /\ cm = NoManager
  /\ apiKey = [name |-> "key1", compressions_used |-> Limit - MaxRemaining,
               status |-> "active"]
  /\ svcCount = Limit - MaxRemaining
  /\ tinifyCount = Null
  /\ results = Null
  /\ pcBatch = "called"
  /\ loopI = 0
  /\ microtasks = <<>>
  /\ NoKeys

NextBreaker ==
  \/ NextBatch
  \/ Tick

SpecBreaker == InitBreaker /\ [][NextBreaker]_vars

\* ------------------------------------------- every kind of error, retried
\* the kinds of error compressFile can throw: the four of the tinify client
\* and an Error that is none of them
ErrorKinds == {"AccountError", "ClientError", "ServerError", "ConnectionError", "Error"}

\* processBatch with maxConcurrent = 1 and enough compressions left
InitRetry ==
  /\ driver = "retry"
  /\ build = "index.js"
  /\ now = TickMs
  /\ \E n \in 1..MaxConc :
       /\ bp = NewBatchProcessor(1)
       /\ files = [i \in 1..n |-> [path |-> MkPath("root", BaseNames[i], "png"), size |-> 2]]
       /\ pc = [i \in 1..n |-> "new"]
       /\ attempt = [i \in 1..n |-> 0]
       /\ req = [i \in 1..n |-> NoRequest]
       /\ slots = [i \in 1..n |-> [acquired |-> 0, released |-> 0]]
       /\ fs = [p \in {MkPath("root", BaseNames[i], "png") : i \in 1..n} |->
                  [data |-> <<p.base>>, size |-> 2, mtime |-> 0]]
  /\ options = [convert |-> Null, recursive |-> FALSE]
  /\ cmd = NoCommand
  /\ cm = NoManager
  /\ apiKey = [name |-> "key1", compressions_used |-> 0, status |-> "active"]
  /\ svcCount = 0
  /\ tinifyCount = Null
  /\ results = Null
  /\ pcBatch = "called"
  /\ loopI = 0
  /\ microtasks = <<>>
  /\ NoKeys

NextRetry ==
  \/ NextBatch
  \/ \E f \in Items, err \in ErrorKinds \ ServiceErrors, partial \in BOOLEAN :
       ServiceError(f, err, partial)

SpecRetry == InitRetry /\ [][NextRetry]_vars

\* processFilesWithBatchProcessor: the BatchProcessor is built with the
\* retryAttempts of the configuration (advanced.retry_attempts || 3)
ConfiguredBatchProcessor(maxConcurrent, retryAttempts) ==
  [NewBatchProcessor(maxConcurrent) EXCEPT !.retryAttempts = retryAttempts]

InitAttempts ==
  /\ driver = "attempts"
  /\ build = "index.js"
  /\ now = TickMs
  /\ \E n \in 1..MaxConc, k \in 1..MaxRetryAttempts :
       /\ bp = ConfiguredBatchProcessor(1, k)
       /\ files = [i \in 1..n |-> [path |-> MkPath("root", BaseNames[i], "png"), size |-> 2]]
       /\ pc = [i \in 1..n |-> "new"]
       /\ attempt = [i \in 1..n |-> 0]
       /\ req = [i \in 1..n |-> NoRequest]
       /\ slots = [i \in 1..n |-> [acquired |-> 0, released |-> 0]]
       /\ fs = [p \in {MkPath("root", BaseNames[i], "png") : i \in 1..n} |->
                  [data |-> <<p.base>>, size |-> 2, mtime |-> 0]]
  /\ options = [convert |-> Null, recursive |-> FALSE]
  /\ cmd = NoCommand
  /\ cm = NoManager
  /\ apiKey = [name |-> "key1", compressions_used |-> 0, status |-> "active"]
  /\ svcCount = 0
  /\ tinifyCount = Null
  /\ results = Null
  /\ pcBatch = "called"
  /\ loopI = 0
  /\ microtasks = <<>>
  /\ NoKeys

SpecAttempts == InitAttempts /\ [][NextRetry]_vars

\* ------------------------------------------- a batch of several chunks
\* the i-th file of a directory with more files than BaseNames: a.png ..
\* h.png, a.jpg ..
NthPath(i) ==
  MkPath("root", BaseNames[((i - 1) % Len(BaseNames)) + 1],
         IF i > Len(BaseNames) THEN "jpg" ELSE "png")

\* processBatch with maxConcurrent = 1, more than 10 files and a key with 3
\* compressions left
InitChunks ==
  /\ driver = "chunks"
  /\ build = "index.js"
  /\ now = TickMs
  /\ \E n \in (ChunkFactor + 1)..MaxChunkFiles :
       /\ bp = NewBatchProcessor(1)
       /\ files = [i \in 1..n |-> [path |-> NthPath(i), size |-> 2]]
       /\ pc = [i \in 1..n |-> "new"]
       /\ attempt = [i \in 1..n |-> 0]
       /\ req = [i \in 1..n |-> NoRequest]
       /\ slots = [i \in 1..n |-> [acquired |-> 0, released |-> 0]]
       /\ fs = [p \in {NthPath(i) : i \in 1..n} |->
                  [data |-> <<p.base>>, size |-> 2, mtime |-> 0]]
  /\ options = [convert |-> Null, recursive |-> FALSE]
  /\ cmd = NoCommand
  /\ cm = NoManager
  /\ apiKey = [name |-> "key1", compressions_used |-> Limit - 3, status |-> "active"]
  /\ svcCount = Limit - 3
  /\ tinifyCount = Null
  /\ results = Null
  /\ pcBatch = "called"
  /\ loopI = 0
  /\ microtasks = <<>>
  /\ NoKeys

SpecChunks == InitChunks /\ [][NextBatch]_vars

\* ------------------------------------------ the options of a transform
\* The operations of the request that compressFile sends: those chained on
\* processedSource when toFile is called.  source.resize(...) and
\* source.convert(...) both start from source.
RequestOps(o) ==
  LET resized == IF o.resize # Null THEN <<"resize">> ELSE <<>>
      converted == IF o.convert # Null THEN <<"convert">> ELSE resized
  IN IF o.preserveMetadata THEN Append(converted, "preserve") ELSE converted

\* processFileWithConcurrency: the compressionOptions it hands on; it sets no
\* resize
CompressionOptions(o) ==
  [preserveMetadata |-> o.preserveMetadata, convert |-> o.convert,
   maxSize |-> o.maxSize, maxSide |-> o.maxSide, resize |-> Null]

\* compressFile(inputPath, apiKey, options), called for a single file
CallCompressFile ==
  /\ driver = "options"
  /\ req = <<>>
  /\ req' = <<[mode |-> "single", ops |-> RequestOps(options)]>>
  /\ UNCHANGED <<keyVars, driver, build, cmd, cm, now, fs, files, options, apiKey, svcCount,
                 tinifyCount, bp, results, pcBatch, loopI, pc, attempt, microtasks, slots>>

\* processFileWithConcurrency(file, apiKey, options, results), down to the
\* request of compressFile
CallProcessFile ==
  /\ driver = "options"
  /\ req = <<>>
  /\ req' = <<[mode |-> "batch", ops |-> RequestOps(CompressionOptions(options))]>>
  /\ UNCHANGED <<keyVars, driver, build, cmd, cm, now, fs, files, options, apiKey, svcCount,
                 tinifyCount, bp, results, pcBatch, loopI, pc, attempt, microtasks, slots>>

InitOptions ==
  /\ driver = "options"
  /\ build = "index.js"
  /\ now = TickMs
  /\ options \in [preserveMetadata : BOOLEAN,
                  convert : {Null, "webp", "png", "jpeg", "avif"},
                  resize : {Null, "fit", "scale"},
                  maxSize : {Null, "800", "1600"},
                  maxSide : {Null, "width", "height"}]
  /\ req = <<>>
  /\ cmd = NoCommand
  /\ cm = NoManager
  /\ fs = [p \in {} |-> Null]
  /\ files = <<>>
  /\ apiKey = [name |-> "key1", compressions_used |-> 0, status |-> "active"]
  /\ svcCount = 0
  /\ bp = NewBatchProcessor(1)
  /\ pc = <<>>
  /\ attempt = <<>>
  /\ slots = <<>>
  /\ tinifyCount = Null
  /\ results = Null
  /\ pcBatch = "idle"
  /\ loopI = 0
  /\ microtasks = <<>>
  /\ NoKeys

NextOptions == CallCompressFile \/ CallProcessFile

SpecOptions == InitOptions /\ [][NextOptions]_vars

\* ---------------------------------------------------- a converting batch
\* the files of a directory that holds the same picture as png and as jpg
ConvertFiles ==
  <<MkPath("root", "a", "png"), MkPath("root", "a", "jpg"), MkPath("root", "b", "png"),
    MkPath("root", "b", "jpg"), MkPath("root", "c", "png")>>

\* processBatch with options.convert = 'webp'
InitConvert ==
  /\ driver = "convert"
  /\ build \in Builds
  /\ now = TickMs
  /\ \E mc \in 1..MaxConc, n \in 2..MaxConcFiles :
       /\ bp = NewBatchProcessor(mc)
       /\ files = [i \in 1..n |-> [path |-> ConvertFiles[i], size |-> 2]]
       /\ pc = [i \in 1..n |-> "new"]
       /\ attempt = [i \in 1..n |-> 0]
       /\ req = [i \in 1..n |-> NoRequest]
       /\ slots = [i \in 1..n |-> [acquired |-> 0, released |-> 0]]
       /\ fs = [p \in {ConvertFiles[i] : i \in 1..n} |->
                  [data |-> <<p.base, p.ext>>, size |-> 2, mtime |-> 0]]
  /\ options = [convert |-> "webp", recursive |-> FALSE]
  /\ cmd = NoCommand
  /\ cm = NoManager
  /\ apiKey = [name |-> "key1", compressions_used |-> 0, status |-> "active"]
  /\ svcCount = 0
  /\ tinifyCount = Null
  /\ results = Null
  /\ pcBatch = "called"
  /\ loopI = 0
  /\ microtasks = <<>>
  /\ NoKeys

SpecConvert == InitConvert /\ [][NextBatch]_vars

\* ------------------------------------------- compressWithRetry on its own
\* One call compressWithRetry(inputPath, apiKey, options, maxRetries):
\* options.maxRetries is its fourth argument, attempt[1] the loop variable,
\* req[1].err the error caught last, and pc[1] where the call is: at the
\* loop test, in compressFile, in the delay, or completed ("returned" a
\* result, "thrown" an error, or "undefined": it ran off the end of the loop).
CwrLoopTest ==
  /\ driver = "cwr"
  /\ pc[1] = "loop"
  /\ pc' = [pc EXCEPT ![1] = IF attempt[1] <= options.maxRetries THEN "request"
                             ELSE "undefined"]
  /\ UNCHANGED <<attempt, req>>
  /\ UNCHANGED <<keyVars, driver, build, cmd, cm, now, fs, files, options, apiKey, svcCount,
                 tinifyCount, bp, results, pcBatch, loopI, microtasks, slots>>

\* return await compressFile(inputPath, apiKey, options)
CwrCompressFileReturns ==
  /\ driver = "cwr"
  /\ pc[1] = "request"
  /\ pc' = [pc EXCEPT ![1] = "returned"]
  /\ UNCHANGED <<attempt, req>>
  /\ UNCHANGED <<keyVars, driver, build, cmd, cm, now, fs, files, options, apiKey, svcCount,
                 tinifyCount, bp, results, pcBatch, loopI, microtasks, slots>>

\* compressFile throws err: the catch block
CwrCompressFileThrows(err) ==
  /\ driver = "cwr"
  /\ pc[1] = "request"
  /\ pc' = [pc EXCEPT ![1] = IF RetryDecision(err, attempt[1], options.maxRetries) = "throw"
                             THEN "thrown" ELSE "retryDelay"]
  /\ req' = [req EXCEPT ![1].err = err]
  /\ UNCHANGED attempt
  /\ UNCHANGED <<keyVars, driver, build, cmd, cm, now, fs, files, options, apiKey, svcCount,
                 tinifyCount, bp, results, pcBatch, loopI, microtasks, slots>>

\* await delay(1000 * attempt) is over: attempt++
CwrDelayElapsed ==
  /\ driver = "cwr"
  /\ pc[1] = "retryDelay"
  /\ attempt' = [attempt EXCEPT ![1] = @ + 1]
  /\ pc' = [pc EXCEPT ![1] = "loop"]
  /\ UNCHANGED req
  /\ UNCHANGED <<keyVars, driver, build, cmd, cm, now, fs, files, options, apiKey, svcCount,
                 tinifyCount, bp, results, pcBatch, loopI, microtasks, slots>>

InitCwr ==
  /\ driver = "cwr"
  /\ build \in Builds
  /\ now = TickMs
  /\ \E maxRetries \in (-1)..MaxRetryAttempts :
       options = [convert |-> Null, recursive |-> FALSE, maxRetries |-> maxRetries]
  /\ files = <<[path |-> MkPath("root", "a", "png"), size |-> 2]>>
  /\ pc = <<"loop">>
  /\ attempt = <<1>>
  /\ req = <<NoRequest>>
  /\ slots = <<[acquired |-> 0, released |-> 0]>>
  /\ fs = [p \in {MkPath("root", "a", "png")} |-> [data |-> <<p.base>>, size |-> 2, mtime |-> 0]]
  /\ cmd = NoCommand
  /\ cm = NoManager
  /\ apiKey = [name |-> "key1", compressions_used |-> 0, status |-> "active"]
  /\ svcCount = 0
  /\ bp = NewBatchProcessor(1)
  /\ tinifyCount = Null
  /\ results = Null
  /\ pcBatch = "idle"
  /\ loopI = 0
  /\ microtasks = <<>>
  /\ NoKeys

NextCwr ==
  \/ CwrLoopTest
  \/ CwrCompressFileReturns
  \/ \E err \in ErrorKinds : CwrCompressFileThrows(err)
  \/ CwrDelayElapsed

SpecCwr == InitCwr /\ [][NextCwr]_vars

\* ------------------------------------------------- backupFile on its own
\* what a file and its backup can be when backupFile is called: the file was
\* never backed up, or it has its backup, or it was compressed at time 0
\* after the backup was made
BackupStates == {"none", "same", "older"}

FileAndBackup(i, st) ==
  LET p == MkPath("root", BaseNames[i], "png")
      orig == [data |-> <<p.base>>, size |-> 2, mtime |-> 0]
  IN IF st = "none" THEN [q \in {p} |-> orig]
     ELSE IF st = "same" THEN [q \in {p, BackupPath(p)} |-> orig]
     ELSE [q \in {p, BackupPath(p)} |-> IF q = p THEN Tinified(orig, Null, 0) ELSE orig]

\* backupFile(filePath, backupDirectory), its fs.copy succeeding
CallBackupFile(filePath) ==
  /\ driver = "backup"
  /\ Len(cmd.validFiles) < MaxRuns
  /\ LET plan == BackupFile(fs, filePath, now)
     IN /\ fs' = IF plan.kind = "skipped" THEN fs ELSE FsCopy(fs, filePath, plan.path)
        /\ cmd' = [cmd EXCEPT !.validFiles = Append(@, [path |-> filePath,
                                                       kind |-> plan.kind])]
  /\ UNCHANGED <<keyVars, driver, build, cm, now, files, options, apiKey, svcCount, tinifyCount,
                 bp, results, pcBatch, loopI, pc, attempt, req, microtasks, slots>>

\* cmd.validFiles lists the calls of backupFile made so far
InitBackup ==
  /\ driver = "backup"
  /\ build = "index.js"
  /\ now = TickMs
  /\ \E n \in 1..MaxDirFiles : \E st \in [1..n -> BackupStates] :
       fs = [q \in UNION {DOMAIN FileAndBackup(i, st[i]) : i \in 1..n} |->
               FileAndBackup(Index(BaseNames, q.base), st[Index(BaseNames, q.base)])[q]]
  /\ cmd = NoCommand
  /\ cm = NoManager
  /\ files = <<>>
  /\ options = [convert |-> Null, recursive |-> FALSE]
  /\ apiKey = [name |-> "key1", compressions_used |-> 0, status |-> "active"]
  /\ svcCount = 0
  /\ bp = NewBatchProcessor(1)
  /\ pc = <<>>
  /\ attempt = <<>>
  /\ req = <<>>
  /\ slots = <<>>
  /\ tinifyCount = Null
  /\ results = Null
  /\ pcBatch = "idle"
  /\ loopI = 0
  /\ microtasks = <<>>
  /\ NoKeys

NextBackup ==
  \/ \E filePath \in {q \in DOMAIN fs : q.dir = "root"} : CallBackupFile(filePath)
  \/ Tick

SpecBackup == InitBackup /\ [][NextBackup]_vars

\* ------------------------------------------------- config.apiKeys, dates
\* An instant is a number of day parts since the UTC midnight that begins
\* day 0, the first day of a month; a 'YYYY-MM-DD' string is a day number.
MonthsPerYear == 12

KeyNames == <<"key1", "key2", "key3", "key4">>

Statuses == {"active", "limit_reached", "invalid", "disabled"}

\* Date.prototype.getMonth() and getFullYear(): fields of local time
LocalDay(x, off) == (x + off) \div DayParts

GetMonth(x, off) == (LocalDay(x, off) \div MonthDays) % MonthsPerYear

GetFullYear(x, off) == (LocalDay(x, off) \div MonthDays) \div MonthsPerYear

\* new Date('YYYY-MM-DD'): the UTC midnight that begins the day
ParseDate(d) == d * DayParts

\* new Date().toISOString().split('T')[0]: the UTC day of the instant
ToISODate(t) == t \div DayParts

IsNewMonth(lastReset, t, off) ==
  \/ GetMonth(t, off) # GetMonth(ParseDate(lastReset), off)
  \/ GetFullYear(t, off) # GetFullYear(ParseDate(lastReset), off)

ResetKey(k, t) ==
  [k EXCEPT !.compressions_used = 0, !.last_reset = ToISODate(t), !.status = "active"]

\* resetAllKeysIfNeeded: the keys it leaves and the value it returns
ResetAllKeysIfNeeded(keys, t, off) ==
  [keys |-> [i \in DOMAIN keys |->
               IF IsNewMonth(keys[i].last_reset, t, off) THEN ResetKey(keys[i], t)
               ELSE keys[i]],
   updated |-> \E i \in DOMAIN keys : IsNewMonth(keys[i].last_reset, t, off)]

Remaining(k) == Limit - k.compressions_used

\* Array.prototype.filter over the positions of config.apiKeys
AvailableKeys(keys, n) ==
  SelectSeq([i \in DOMAIN keys |-> i],
            LAMBDA i : Remaining(keys[i]) >= n /\ keys[i].status # "limit_reached")

\* a faulty variant: a key goes in front of the keys with equal remaining
InsertByRemainingFront(keys, sorted, i) ==
  LET p == Cardinality({j \in DOMAIN sorted :
                          Remaining(keys[sorted[j]]) > Remaining(keys[i])})
  IN SubSeq(sorted, 1, p) \o <<i>> \o SubSeq(sorted, p + 1, Len(sorted))

\* Array.prototype.sort with (a, b) => remainingB - remainingA: stable,
\* most remaining first
InsertByRemaining(keys, sorted, i) ==
  LET p == Cardinality({j \in DOMAIN sorted :
                          Remaining(keys[sorted[j]]) >= Remaining(keys[i])})
  IN SubSeq(sorted, 1, p) \o <<i>> \o SubSeq(sorted, p + 1, Len(sorted))

RECURSIVE SortByRemaining(_, _, _)
SortByRemaining(keys, todo, sorted) ==
  IF todo = <<>> THEN sorted
  ELSE SortByRemaining(keys, Tail(todo), InsertByRemaining(keys, sorted, Head(todo)))

\* selectBestApiKey: key is the position in config.apiKeys of the object returned
SelectBestApiKey(keys, n, t, off) ==
  LET r == ResetAllKeysIfNeeded(keys, t, off)
      availableKeys == AvailableKeys(r.keys, n)
  IN IF availableKeys = <<>>
     THEN [keys |-> r.keys, updated |-> r.updated, kind |-> "null", key |-> 0]
     ELSE [keys |-> r.keys, updated |-> r.updated, kind |-> "key",
           key |-> Head(SortByRemaining(r.keys, availableKeys, <<>>))]

\* config.apiKeys.find(key => key.name === keyName): a position, 0 for undefined
FindKey(keys, keyName) ==
  IF \E i \in DOMAIN keys : keys[i].name = keyName
  THEN CHOOSE i \in DOMAIN keys :
         /\ keys[i].name = keyName
         /\ \A j \in DOMAIN keys : keys[j].name = keyName => i <= j
  ELSE 0

ValidateApiKeySelection(keyName, keys, n, t, off) ==
  IF keyName \in {Null, "any"}
  THEN LET s == SelectBestApiKey(keys, n, t, off)
       IN IF s.kind = "null" THEN [s EXCEPT !.kind = "throw"] ELSE s
  ELSE LET i == FindKey(keys, keyName)
       IN IF i = 0 \/ Remaining(keys[i]) < n
          THEN [keys |-> keys, updated |-> FALSE, kind |-> "throw", key |-> 0]
          ELSE [keys |-> keys, updated |-> FALSE, kind |-> "key", key |-> i]

\* compressDirCommand: loadConfig and the lookup of apiKeyName
CompressDirLookup(keyName, keys) ==
  LET i == FindKey(keys, keyName)
  IN [keys |-> keys, updated |-> FALSE,
      kind |-> IF i = 0 THEN "throw" ELSE "key", key |-> i]

UpdateKeyUsage(keys, keyName, newUsageCount, t, off) ==
  LET i == FindKey(keys, keyName)
  IN IF i = 0
     THEN [keys |-> keys, updated |-> FALSE, kind |-> "throw", key |-> 0]
     ELSE LET k1 == IF IsNewMonth(keys[i].last_reset, t, off) THEN ResetKey(keys[i], t)
                    ELSE keys[i]
              k2 == [k1 EXCEPT !.compressions_used = newUsageCount,
                               !.status = IF newUsageCount >= Limit THEN "limit_reached"
                                          ELSE "active"]
          IN [keys |-> [keys EXCEPT ![i] = k2], updated |-> TRUE, kind |-> "key", key |-> i]

batchVars == <<driver, build, cmd, cm, now, fs, files, options, apiKey, svcCount,
               tinifyCount, bp, results, pcBatch, loopI, pc, attempt, req, microtasks, slots>>

\* one call on the configuration: what it leaves in config.apiKeys and returns
Called(op, n, r) ==
  /\ config' = r.keys
  /\ sel' = [op |-> op, required |-> n, at |-> clock,
             kind |-> r.kind, key |-> r.key, updated |-> r.updated]
  /\ UNCHANGED <<clock, tz, rate, batchVars>>

CallSelectBestApiKey(n) ==
  /\ driver = "keys"
  /\ Called("selectBestApiKey", n, SelectBestApiKey(config, n, clock, tz))

CallValidateApiKeySelection(keyName, n) ==
  /\ driver \in {"keys", "reset"}
  /\ Called("validateApiKeySelection", n,
            ValidateApiKeySelection(keyName, config, n, clock, tz))

CallCompressDirLookup(keyName) ==
  /\ driver = "reset"
  /\ Called("compressDirCommand", 0, CompressDirLookup(keyName, config))

CallResetAllKeysIfNeeded ==
  /\ driver = "reset"
  /\ LET r == ResetAllKeysIfNeeded(config, clock, tz)
     IN Called("resetAllKeysIfNeeded", 0,
               [keys |-> r.keys, updated |-> r.updated, kind |-> "value", key |-> 0])

CallUpdateKeyUsage(keyName, newUsageCount) ==
  /\ driver = "reset"
  /\ Called("updateKeyUsage", 0,
            UpdateKeyUsage(config, keyName, newUsageCount, clock, tz))

\* the first instant of the month after the one of day 0
MonthStart == DayParts * MonthDays

\* new Date() advances between two calls
ClockTick ==
  /\ driver = "reset"
  /\ clock < MonthStart + DayParts - 1
  /\ clock' = clock + 1
  /\ UNCHANGED <<config, tz, sel, rate, batchVars>>

\* no file is processed
NoBatch ==
  /\ build = "index.js"
  /\ now = TickMs
  /\ cmd = NoCommand
  /\ cm = NoManager
  /\ fs = [p \in {} |-> Null]
  /\ files = <<>>
  /\ options = [convert |-> Null, recursive |-> FALSE]
  /\ apiKey = [name |-> "key1", compressions_used |-> 0, status |-> "active"]
  /\ svcCount = 0
  /\ bp = NewBatchProcessor(1)
  /\ pc = <<>>
  /\ attempt = <<>>
  /\ req = <<>>
  /\ slots = <<>>
  /\ tinifyCount = Null
  /\ results = Null
  /\ pcBatch = "idle"
  /\ loopI = 0
  /\ microtasks = <<>>

\* the registries of nk keys that validateConfig accepts, with the given
\* values of last_reset
Registries(nk, resets) ==
  {[i \in 1..nk |-> [name |-> KeyNames[i],
                     compressions_used |-> entry[i].compressions_used,
                     last_reset |-> entry[i].last_reset,
                     status |-> entry[i].status]] :
     entry \in [1..nk -> [compressions_used : {0, Limit - 1, Limit},
                          last_reset : resets,
                          status : Statuses]]}

\* ---------------------------------------------------------- key selection
\* selection from a registry of several keys, at the first instant of a
\* month, local time being UTC; a key was last reset this month or the month
\* before
InitKeys ==
  /\ rate = NoRate
  /\ driver = "keys"
  /\ NoBatch
  /\ clock = MonthStart
  /\ tz = 0
  /\ \E nk \in 1..MaxKeys : config \in Registries(nk, {0, MonthDays})
  /\ sel = NoSelection

NextKeys ==
  \/ \E n \in 0..MaxRequired : CallSelectBestApiKey(n)
  \/ \E keyName \in {"any", KeyNames[1], KeyNames[Len(config) + 1]}, n \in 0..MaxRequired :
       CallValidateApiKeySelection(keyName, n)

SpecKeys == InitKeys /\ [][NextKeys]_vars

\* ------------------------------------------------------ the monthly reset
\* one key, read on the last day of a month in any of three time zones,
\* and the calls made on it while the month changes
InitReset ==
  /\ rate = NoRate
  /\ driver = "reset"
  /\ NoBatch
  /\ clock = MonthStart - DayParts
  /\ tz \in {-1, 0, 1}
  /\ config \in Registries(1, {0, MonthDays - 1})
  /\ sel = NoSelection

NextReset ==
  \/ \E n \in 0..MaxRequired : CallValidateApiKeySelection(KeyNames[1], n)
  \/ CallCompressDirLookup(KeyNames[1])
  \/ CallResetAllKeysIfNeeded
  \/ \E newUsageCount \in {Limit - 1, Limit} : CallUpdateKeyUsage(KeyNames[1], newUsageCount)
  \/ ClockTick

SpecReset == InitReset /\ [][NextReset]_vars

\* ------------------------------------------- RateMonitor and RateLimiter
\* rate.obj is the object, rate.events the calls made on it so far, and
\* rate.returned what its latest getOptimalDelay() returned.  Times are
\* milliseconds.  backoffMultiplier is kept in thousandths, rounded down;
\* lastRateLimitHit is 0 (as falsy as null) until a rate limit was hit.
Latencies == {1000, 2000, 4000}
BaseDelays == {100, 300}
MaxDelays == {2000}

RECURSIVE SumResponseTime(_)
SumResponseTime(rs) ==
  IF rs = <<>> THEN 0 ELSE Head(rs).responseTime + SumResponseTime(Tail(rs))

\* this.failures.filter(time => now - time < 30000)
RecentFailures(o, t) == SelectSeq(o.failures, LAMBDA time : t - time < 30000)

\* this.responses.filter(r => now - r.time < 10000)
RecentResponses(o, t) == SelectSeq(o.responses, LAMBDA r : t - r.time < 10000)

\* avgResponseTime > ms, for a non-empty rs
AvgResponseTimeAbove(rs, ms) == SumResponseTime(rs) > ms * Len(rs)

\* push and, beyond max entries, shift
PushCapped(q, x, max) ==
  LET q1 == Append(q, x) IN IF Len(q1) > max THEN Tail(q1) ELSE q1

NewTimedRateMonitor ==
  [responses |-> <<>>, failures |-> <<>>, baseDelay |-> 100, maxDelay |-> 2000]

\* RateMonitor.recordSuccess(responseTime)
MonitorRecordSuccess(rm, t, responseTime) ==
  [rm EXCEPT !.responses = PushCapped(@, [time |-> t, responseTime |-> responseTime], 100)]

\* RateMonitor.recordFailure()
MonitorRecordFailure(rm, t) ==
  [rm EXCEPT !.failures = PushCapped(@, t, 50)]

\* RateMonitor.getOptimalDelay()
MonitorGetOptimalDelay(rm, t) ==
  IF Len(RecentFailures(rm, t)) = 0 THEN rm.baseDelay
  ELSE IF Len(RecentResponses(rm, t)) = 0 THEN rm.baseDelay * 2
  ELSE IF AvgResponseTimeAbove(RecentResponses(rm, t), 3000)
       THEN Min(rm.maxDelay, rm.baseDelay * 3)
  ELSE IF AvgResponseTimeAbove(RecentResponses(rm, t), 1500)
       THEN Min(rm.maxDelay, rm.baseDelay * 2)
  ELSE rm.baseDelay

NewRateLimiter(baseDelay, maxDelay) ==
  [baseDelay |-> baseDelay, maxDelay |-> maxDelay, responses |-> <<>>, failures |-> <<>>,
   lastRateLimitHit |-> 0, backoffMultiplier |-> 1000]

Max(a, b) == IF a > b THEN a ELSE b

\* baseDelay * backoffMultiplier
Backoff(rl) == (rl.baseDelay * rl.backoffMultiplier) \div 1000

\* RateLimiter.recordSuccess(responseTime)
LimiterRecordSuccess(rl, t, responseTime) ==
  [rl EXCEPT !.responses = PushCapped(@, [time |-> t, responseTime |-> responseTime], 100),
             !.backoffMultiplier = Max(1000, (@ * 8) \div 10)]

\* RateLimiter.recordFailure()
LimiterRecordFailure(rl, t) ==
  [rl EXCEPT !.failures = PushCapped(@, t, 50),
             !.backoffMultiplier = Min(8000, (@ * 3) \div 2)]

\* RateLimiter.recordRateLimit()
LimiterRecordRateLimit(rl, t) ==
  [rl EXCEPT !.lastRateLimitHit = t,
             !.backoffMultiplier = Min(8000, @ * 2)]

\* RateLimiter.getOptimalDelay(): the limiter it leaves and the delay
LimiterGetOptimalDelay(rl, t) ==
  IF rl.lastRateLimitHit # 0 /\ t - rl.lastRateLimitHit < 10000
  THEN [rl |-> rl, delay |-> Backoff(rl)]
  ELSE IF Len(RecentFailures(rl, t)) > 3
  THEN LET r1 == [rl EXCEPT !.backoffMultiplier = Min(8000, (@ * 3) \div 2)]
       IN [rl |-> r1, delay |-> Min(rl.maxDelay, Backoff(r1))]
  ELSE IF /\ Len(RecentResponses(rl, t)) > 0
          /\ AvgResponseTimeAbove(RecentResponses(rl, t), 3000)
  THEN [rl |-> rl, delay |-> Min(rl.maxDelay, rl.baseDelay * 3)]
  ELSE IF /\ Len(RecentResponses(rl, t)) > 0
          /\ AvgResponseTimeAbove(RecentResponses(rl, t), 1500)
  THEN [rl |-> rl, delay |-> Min(rl.maxDelay, rl.baseDelay * 2)]
  ELSE [rl |-> [rl EXCEPT !.backoffMultiplier = Max(1000, (@ * 9) \div 10)],
        delay |-> rl.baseDelay]

\* one call on the object: the object it leaves and what was returned
RateEvent(obj, returned) ==
  /\ driver = "rate"
  /\ rate.events < MaxEvents
  /\ rate' = [rate EXCEPT !.obj = obj, !.events = @ + 1, !.returned = returned]
  /\ UNCHANGED <<config, clock, tz, sel, batchVars>>

CallRecordSuccess(responseTime) ==
  /\ driver = "rate"
  /\ RateEvent(IF rate.kind = "RateMonitor"
               THEN MonitorRecordSuccess(rate.obj, now, responseTime)
               ELSE LimiterRecordSuccess(rate.obj, now, responseTime),
               rate.returned)

CallRecordFailure ==
  /\ driver = "rate"
  /\ RateEvent(IF rate.kind = "RateMonitor"
               THEN MonitorRecordFailure(rate.obj, now)
               ELSE LimiterRecordFailure(rate.obj, now),
               rate.returned)

CallRecordRateLimit ==
  /\ driver = "rate"
  /\ rate.kind = "RateLimiter"
  /\ RateEvent(LimiterRecordRateLimit(rate.obj, now), rate.returned)

CallGetOptimalDelay ==
  /\ driver = "rate"
  /\ IF rate.kind = "RateMonitor"
     THEN RateEvent(rate.obj, [delay |-> MonitorGetOptimalDelay(rate.obj, now),
                               call |-> rate.events + 1])
     ELSE LET r == LimiterGetOptimalDelay(rate.obj, now)
          IN RateEvent(r.rl, [delay |-> r.delay, call |-> rate.events + 1])

InitRate ==
  /\ driver = "rate"
  /\ NoBatch
  /\ config = <<>>
  /\ clock = 0
  /\ tz = 0
  /\ sel = NoSelection
  /\ \/ rate = [kind |-> "RateMonitor", obj |-> NewTimedRateMonitor, events |-> 0,
                returned |-> [delay |-> 0, call |-> 0]]
     \/ \E baseDelay \in BaseDelays, maxDelay \in MaxDelays :
          rate = [kind |-> "RateLimiter", obj |-> NewRateLimiter(baseDelay, maxDelay),
                  events |-> 0, returned |-> [delay |-> 0, call |-> 0]]

NextRate ==
  \/ \E responseTime \in Latencies : CallRecordSuccess(responseTime)
  \/ CallRecordFailure
  \/ CallRecordRateLimit
  \/ CallGetOptimalDelay
  \/ Tick

SpecRate == InitRate /\ [][NextRate]_vars

\* -------------------------------------------------------------- properties
\* processBatch has created its results object
Started == pcBatch \notin {"idle", "called"}

\* the calls that hold a slot: acquire() completed, release() not yet called
Holders == {f \in Items : slots[f].acquired > slots[f].released}

\* the calls inside compressWithRetry
InTransform == {f \in Items : pc[f] \in {"request", "response", "moving", "retryDelay"}}

\* the entries of results that belong to files[f]
Outcomes(f) ==
  Len(SelectSeq(results.successful, LAMBDA e : e.file = files[f].path))
  + Len(SelectSeq(results.failed, LAMBDA e : e.file = files[f].path))

\* C1: in a processBatch run the number of calls that hold a semaphore slot
\* never exceeds maxConcurrent, and a call inside the remote transform holds
\* a slot.
C1_SlotsBounded ==
  /\ Cardinality(Holders) <= bp.maxConcurrent
  /\ InTransform \subseteq Holders

\* maxConcurrent = 2 calls are inside the transform while a third one waits
C1_Witness ==
  /\ bp.maxConcurrent = 2
  /\ Cardinality({f \in Items : pc[f] = "request"}) = 2
  /\ Len(bp.semaphore.queue) > 0

\* C8: processBatch never rejects, and when it returns every input file has
\* exactly one entry in results.successful or results.failed (and never more
\* than one before that).
C8_FailuresIsolated ==
  /\ pcBatch # "rejected"
  /\ Started =>
       \A f \in Items :
         /\ Outcomes(f) <= 1
         /\ pcBatch = "returned" => Outcomes(f) = 1

\* a batch returned with successes and failures
C8_Witness ==
  /\ pcBatch = "returned"
  /\ Len(results.successful) > 0
  /\ Len(results.failed) > 0

\* C9: when processBatch returns, every call has settled and released its
\* slot: semaphore.current is 0, the queue and activePromises are empty.
C9_Drained ==
  pcBatch = "returned" =>
    /\ \A f \in Items : Terminal(f)
    /\ Holders = {}
    /\ bp.semaphore.current = 0
    /\ bp.semaphore.queue = <<>>
    /\ bp.activePromises = {}

\* a batch in which calls had to queue has returned
C9_Witness ==
  /\ pcBatch = "returned"
  /\ N > bp.maxConcurrent
  /\ Len(results.successful) > 0
  /\ Len(results.failed) > 0

\* C6: the recorded usage (results.finalCompressionCount) never decreases
\* and never exceeds the limit of 500.
C6_UsageMonotone ==
  /\ [][Started =>
          results'.finalCompressionCount >= results.finalCompressionCount]_vars
  /\ [](Started => results.finalCompressionCount <= Limit)

\* the backup directory's files
Backups(f) == {p \in DOMAIN f : p.dir = "original" /\ ~p.tmp}

\* backupFiles recorded an error for this path in the current run
BackupFailed(path) == InSeq(cmd.backupResults.errors, path)

\* C2: in a directory run, a file whose backupFile call failed is never
\* handed to the remote transform, and when the install of a file begins the
\* backup directory holds a copy of the bytes that were uploaded.
C2_BackupBeforeInstall ==
  driver = "dir" =>
    \A f \in Items :
      /\ pc[f] \in {"request", "response", "moving"} => ~BackupFailed(files[f].path)
      /\ pc[f] = "moving" =>
           \E b \in Backups(fs) : fs[b].data = req[f].data.data

\* C3: while a file is with the service its bytes on disk are the bytes that
\* were uploaded, and the step in which an attempt of compressWithRetry fails
\* leaves the source file as it was, leaves no temporary file, and leaves
\* what backupFile would do with the file unchanged.
C3_FailureKeepsOriginal ==
  /\ [](\A f \in Items :
          pc[f] \in {"request", "response"} =>
            /\ Exists(fs, files[f].path)
            /\ fs[files[f].path] = req[f].data)
  /\ [][\A f \in Items :
          (pc[f] = "request" /\ pc'[f] \in {"failed", "retryDelay"}) =>
            LET p == files[f].path
            IN /\ Exists(fs', p)
               /\ fs'[p] = fs[p]
               /\ ~Exists(fs', TempPath(p))
               /\ Backups(fs') = Backups(fs)
               /\ BackupFile(fs', p, now').kind = BackupFile(fs, p, now).kind]_vars

\* a transform failed for good in a directory run; the file is there with the
\* bytes of its backup, which a later run will skip
C3_Witness ==
  /\ driver = "dir"
  /\ \E f \in Items :
       /\ pc[f] = "failed"
       /\ \E k \in 1..Len(results.failed) :
            /\ results.failed[k].file = files[f].path
            /\ results.failed[k].error = "ServerError"
       /\ files[f].path.dir = "root"
       /\ Exists(fs, files[f].path)
       /\ BackupFile(fs, files[f].path, now).kind = "skipped"

\* C4: a file of the backup directory is never overwritten, modified or
\* deleted, by no step of any run.
C4_BackupsNeverChange ==
  [][\A p \in Backups(fs) : p \in Backups(fs') /\ fs'[p] = fs[p]]_vars

\* C5: when compressFile succeeds with a conversion to another path, the
\* source path is gone, the output path holds the transformed bytes, and the
\* backup directory holds a byte-identical copy of the original.
C5_ConvertKeepsBackup ==
  [][\A f \in Items :
       LET p == files[f].path
           out == OutputPath(p, options.convert)
       IN (pc[f] = "moving" /\ pc'[f] = "done" /\ options.convert # Null /\ out # p) =>
            /\ ~Exists(fs', p)
            /\ Exists(fs', out)
            /\ fs'[out].data = Tinified(fs[p], options.convert, now).data
            /\ \E b \in Backups(fs') :
                 fs'[b].data = fs[p].data /\ fs'[b].size = fs[p].size]_vars

\* the entries of results.failed that record the file at path
FailedEntries(path) == SelectSeq(results.failed, LAMBDA e : e.file = path)

\* C7: when a directory run has N valid files and r < N compressions left,
\* the files compressed are among the first r, they are exactly the first r
\* when nothing else fails, and each of the other N - r files is recorded in
\* the results as not processed.
C7_QuotaSkipsRecorded ==
  (/\ driver = "dir"
   /\ cmd.pc = "processing"
   /\ pcBatch = "returned"
   /\ Len(cmd.validFiles) > cmd.availableCompressions) =>
    LET r == cmd.availableCompressions
        first == {cmd.validFiles[k].path : k \in 1..r}
        done == {results.successful[k].file : k \in 1..Len(results.successful)}
    IN /\ done \subseteq first
       /\ results.failed = <<>> => done = first
       /\ \A k \in (r + 1)..Len(cmd.validFiles) :
            Len(FailedEntries(cmd.validFiles[k].path)) = 1

\* C10: a call that acquired a slot releases it exactly once, however it
\* ends, in processFileWithConcurrency and in executeWithConcurrency: no call
\* releases more than it acquired, and a call that has ended has acquired
\* once and released once.
C10_NoSlotLeak ==
  /\ \A f \in Items :
       /\ slots[f].released <= slots[f].acquired
       /\ slots[f].acquired <= 1
       /\ Terminal(f) => slots[f].acquired = 1 /\ slots[f].released = 1
  /\ \A t \in Tasks :
       /\ cm.slots[t].released <= cm.slots[t].acquired
       /\ cm.slots[t].acquired <= 1
       /\ cm.pc[t] \in {"done", "failed"} =>
            cm.slots[t].acquired = 1 /\ cm.slots[t].released = 1
       /\ t \in cm.activeRequests => cm.slots[t].acquired > cm.slots[t].released

\* a batch has returned in which calls ended by the quota check and by the
\* circuit breaker
C10_Witness ==
  /\ pcBatch = "returned"
  /\ \E k \in 1..Len(results.failed) : results.failed[k].error = "CircuitOpen"
  /\ \E k \in 1..Len(results.failed) : results.failed[k].error = "LimitReached"

\* ------------------------------------------------ circuit breaker (reuse)
Breaker == bp.circuitBreaker

\* C11: the breaker is CLOSED exactly when consecutiveFailures is below
\* failureThreshold, in every reachable state; it leaves CLOSED only for
\* OPEN, in the step whose recordFailure() brings consecutiveFailures to
\* failureThreshold.
C11_ClosedIffBelowThreshold ==
  /\ [](Breaker.state = "CLOSED" <=> Breaker.consecutiveFailures < failureThreshold)
  /\ [][(Breaker.state = "CLOSED" /\ Breaker'.state # "CLOSED") =>
          /\ Breaker'.state = "OPEN"
          /\ Breaker.consecutiveFailures = failureThreshold - 1
          /\ Breaker'.consecutiveFailures = failureThreshold]_vars

\* the breaker was opened by a failure of this processBatch call
C11_Witness ==
  /\ Started
  /\ Breaker.state = "OPEN"
  /\ Breaker.consecutiveFailures = failureThreshold
  /\ Breaker.lastFailureTime > 0
  /\ results.failed # <<>>

\* C12: an OPEN breaker returns to CLOSED only through the success of the
\* trial admitted in HALF_OPEN: no step takes the breaker from OPEN to
\* CLOSED directly, whatever completes in that step.
C12_OpenClosesOnlyThroughTrial ==
  [][Breaker.state = "OPEN" => Breaker'.state # "CLOSED"]_vars

\* C13: a HALF_OPEN breaker has admitted its one trial and the result of
\* the trial is not recorded yet (any recorded result leaves HALF_OPEN):
\* no step admits another call past shouldBlock() in that state.
C13_OneTrialInHalfOpen ==
  [][Breaker.state = "HALF_OPEN" =>
       \A f \in Items : ~(pc[f] = "acquired" /\ pc'[f] = "delay")]_vars

\* the errors recorded in results.failed
FailedErrors == {results.failed[k].error : k \in 1..Len(results.failed)}

\* C14: a call that finds the breaker blocking is delayed, never failed: no
\* file is recorded in results.failed because shouldBlock() answered true.
C14_BlockedIsDelayed ==
  Started => "CircuitOpen" \notin FailedErrors

\* C15: a quota failure, AccountError from the service or the local
\* rejection at the monthly limit, leaves consecutiveFailures unchanged, so
\* it cannot open the breaker.
C15_QuotaNotCounted ==
  [][\A f \in Items :
       (/\ Started
        /\ Len(FailedEntries(files[f].path)) = 0
        /\ Len(SelectSeq(results'.failed,
                         LAMBDA e : e.file = files[f].path
                                    /\ e.error \in {"AccountError", "LimitReached"})) = 1)
       => /\ Breaker'.consecutiveFailures = Breaker.consecutiveFailures
          /\ Breaker'.state = Breaker.state]_vars

\* ---------------------------------------------------------- key selection
\* what selectBestApiKey must return when Q is the set of qualifying positions
BestOf(Q) ==
  IF Q = {} THEN sel.kind = "null"
  ELSE /\ sel.kind = "key"
       /\ sel.key \in Q
       /\ \A j \in Q :
            /\ Remaining(config[j]) <= Remaining(config[sel.key])
            /\ Remaining(config[j]) = Remaining(config[sel.key]) => sel.key <= j

\* C16 as stated: selectBestApiKey(config, n) returns, among the keys whose
\* remaining capacity is at least n, the one with the greatest remaining
\* capacity, the earliest registered of equals, and null when there is none.
C16_SelectsGreatestRemaining ==
  sel.op = "selectBestApiKey" =>
    BestOf({i \in DOMAIN config : Remaining(config[i]) >= sel.required})

\* C16 amended: selectBestApiKey(config, n) returns, among the keys whose
\* remaining capacity is at least n and whose status is not limit_reached,
\* the one with the greatest remaining capacity, the earliest registered of
\* equals, and null when there is none.
C16_SelectsGreatestAvailable ==
  sel.op = "selectBestApiKey" =>
    BestOf({i \in DOMAIN config : /\ Remaining(config[i]) >= sel.required
                                  /\ config[i].status # "limit_reached"})

\* a key was returned and a later key, as available, has the same remaining
\* capacity
C16_Witness ==
  /\ sel.op = "selectBestApiKey"
  /\ sel.kind = "key"
  /\ \E j \in DOMAIN config :
       /\ j > sel.key
       /\ config[j].status # "limit_reached"
       /\ Remaining(config[j]) = Remaining(config[sel.key])
       /\ Remaining(config[j]) >= sel.required

\* C17: the key selectBestApiKey returns, for every registry and every
\* requiredCompressions from 0 on, has status active and compressions_used
\* below the limit.
C17_SelectedIsUsable ==
  (sel.op = "selectBestApiKey" /\ sel.kind = "key") =>
    /\ config[sel.key].status = "active"
    /\ config[sel.key].compressions_used < Limit

\* -------------------------------------------------------- the monthly reset
\* the calendar month of a last_reset date is before the local month of now
EarlierMonth(lastReset) ==
  lastReset \div MonthDays < LocalDay(clock, tz) \div MonthDays

SelectionCalls == {"selectBestApiKey", "validateApiKeySelection", "compressDirCommand"}

\* C18: whichever way a key is selected, automatically, by name or by the
\* lookup of compressDirCommand, the monthly reset has been applied first: a
\* key just returned whose last_reset lies in an earlier month has
\* compressions_used = 0 and status active.
C18_ResetBeforeSelection ==
  (sel.op \in SelectionCalls /\ sel.kind = "key" /\ sel.at = clock) =>
    (EarlierMonth(config[sel.key].last_reset) =>
       /\ config[sel.key].compressions_used = 0
       /\ config[sel.key].status = "active")

\* C19: at every instant and in every time zone, resetAllKeysIfNeeded
\* applied again right after resetAllKeysIfNeeded changes no key and
\* reports no update.
C19_ResetIdempotent ==
  (sel.op = "resetAllKeysIfNeeded" /\ sel.at = clock) =>
    LET again == ResetAllKeysIfNeeded(config, clock, tz)
    IN /\ again.keys = config
       /\ ~again.updated

\* C20: once compressDirCommand has stored the usage of a run in the key,
\* the key has status limit_reached exactly when compressions_used has
\* reached the limit.
C20_StatusFollowsUsage ==
  (driver = "dir" /\ cmd.pc = "idle" /\ cmd.run > 0) =>
    (apiKey.status = "limit_reached" <=> apiKey.compressions_used >= Limit)

\* ------------------------------------------------------ compressWithRetry
\* the error of the entry that call f appends to results.failed in this step
FailsWith(f, e) ==
  /\ pc[f] = "request"
  /\ pc'[f] = "failed"
  /\ results'.failed = Append(results.failed, [file |-> files[f].path, error |-> e])

\* C21: compressWithRetry does not call compressFile again after an
\* AccountError or a ClientError; after any other error it calls it again
\* unless that was call number maxRetries, whose error it rethrows; it never
\* makes more than maxRetries calls, and a successful call is the last one.
C21_RetryPolicy ==
  /\ [](\A f \in Items :
          /\ attempt[f] <= DefaultMaxRetries
          /\ pc[f] = "retryDelay" =>
               /\ req[f].err \notin {"AccountError", "ClientError"}
               /\ attempt[f] < DefaultMaxRetries)
  /\ [][\A f \in Items :
          /\ \A e \in ErrorKinds \ {"AccountError", "ClientError"} :
               FailsWith(f, e) => attempt[f] = DefaultMaxRetries
          /\ pc[f] = "moving" /\ pc'[f] # "moving" => pc'[f] = "done"]_vars

\* a ClientError was rethrown at once and another call failed maxRetries times
C21_Witness ==
  /\ Started
  /\ "ClientError" \in FailedErrors
  /\ "ConnectionError" \in FailedErrors

\* C22: an error that is none of the client's kinds is retried once: when
\* the attempt made after such an error fails with such an error again,
\* compressWithRetry makes no further attempt.
C22_UnknownRetriedOnce ==
  [][\A f \in Items :
       (pc[f] = "request" /\ req[f].err = "Error" /\ pc'[f] = "retryDelay")
         => req'[f].err # "Error"]_vars

\* ------------------------------------------------------------- backupFile
\* the backups that hold what the file at filePath holds now
CopiesOf(filePath) ==
  {b \in Backups(fs) : b.base = filePath.base /\ b.ext = filePath.ext /\ fs[b] = fs[filePath]}

\* C23: backupFile on a file whose backup exists with the same size and
\* modification time creates no file and returns skipped, and after two
\* calls in a row on an unchanged file the backup directory holds exactly
\* one backup of it.
C23_BackupIdempotent ==
  /\ [][\A q \in DOMAIN fs :
          (/\ Len(cmd'.validFiles) = Len(cmd.validFiles) + 1
           /\ cmd'.validFiles[Len(cmd'.validFiles)].path = q
           /\ Exists(fs, BackupPath(q))
           /\ fs[BackupPath(q)].size = fs[q].size
           /\ fs[BackupPath(q)].mtime = fs[q].mtime)
          => /\ fs' = fs
             /\ cmd'.validFiles[Len(cmd'.validFiles)].kind = "skipped"]_vars
  /\ [](LET calls == cmd.validFiles
            k == Len(calls)
        IN (k >= 2 /\ calls[k].path = calls[k - 1].path)
             => Cardinality(CopiesOf(calls[k].path)) = 1)

\* C24: once results.finalCompressionCount has reached the limit, no call of
\* compressFile is started, neither the first of a file that passed the
\* quota check earlier nor a retry; the requests under way may finish.
C24_NoCallAfterLimit ==
  [][\A f \in Items :
       (/\ Started
        /\ results.finalCompressionCount >= Limit
        /\ pc[f] \in {"delay", "retryDelay"})
       => pc'[f] # "request"]_vars

\* ------------------------------------------------------------- validation
\* the files of the directory whose header is not that of an image: they fail
\* validation
InvalidFiles ==
  {p \in DOMAIN fs : p.dir = "root" /\ ~p.tmp /\ ~IsValidImageHeader(fs[p])}

\* C25: in a directory run a file that fails validation is not backed up, is
\* not handed to processBatch, has no temporary file, and stays on disk as
\* it was.
C25_InvalidUntouched ==
  driver = "dir" =>
    \A p \in InvalidFiles :
      /\ fs[p] = [data |-> <<"corrupt", p.base>>, size |-> 2, mtime |-> 0]
      /\ \A b \in Backups(fs) : b.base # p.base
      /\ ~Exists(fs, TempPath(p))
      /\ \A f \in Items : files[f].path # p
      /\ \A k \in 1..Len(cmd.validFiles) : cmd.validFiles[k].path # p

\* a run has compressed a file of a directory that holds an invalid file
C25_Witness ==
  /\ driver = "dir"
  /\ pcBatch = "returned"
  /\ results.successful # <<>>
  /\ InvalidFiles # {}

\* ------------------------------------------------------------ wait queues
\* The waiters that left the queue q in a step are its k oldest entries, and
\* their continuations were queued behind mt in that order; q2 and mt2 are
\* the queue and the continuations after the step.
GrantedInOrder(q, q2, mt, mt2) ==
  LET k == Cardinality({i \in 1..Len(q) : ~InSeq(q2, q[i])})
  IN /\ Len(q2) >= Len(q) - k
     /\ SubSeq(q2, 1, Len(q) - k) = SubSeq(q, k + 1, Len(q))
     /\ k > 0 => /\ Len(mt2) >= k
                 /\ SubSeq(mt2, Len(mt2) - k + 1, Len(mt2)) = SubSeq(q, 1, k)

\* C26: the waiters of Semaphore and of the ConcurrencyManager request queue
\* are granted slots in the order in which they called acquire: a step removes
\* waiters only from the front of the queue and resumes them in queue order, a
\* new waiter goes to the back, Semaphore.release() passes the slot on without
\* freeing it, and the calls of a batch wait in the order they were issued.
C26_FifoGrants ==
  /\ [][/\ GrantedInOrder(bp.semaphore.queue, bp'.semaphore.queue,
                          microtasks, microtasks')
        /\ GrantedInOrder(cm.requestQueue, cm'.requestQueue,
                          cm.microtasks, cm'.microtasks)
        /\ (bp.semaphore.queue # <<>> /\ bp'.semaphore.queue = Tail(bp.semaphore.queue))
             => bp'.semaphore.current = bp.semaphore.current]_vars
  /\ [](\A i, j \in 1..Len(bp.semaphore.queue) :
           i < j => bp.semaphore.queue[i] < bp.semaphore.queue[j])

\* a call that had to wait in a batch has its slot while later calls still
\* wait
C26_Witness ==
  /\ driver = "batch"
  /\ Len(bp.semaphore.queue) > 0
  /\ \E f \in Items :
       /\ f > bp.semaphore.maxConcurrent
       /\ slots[f].acquired = 1
       /\ f < Head(bp.semaphore.queue)

\* the calls of executeWithConcurrency that have resumed after acquireSlot and
\* have not reached releaseSlot
Running == {t \in Tasks : cm.pc[t] \in {"delay", "task"}}

\* C27: whenever a call of executeWithConcurrency gets past acquireSlot, the
\* calls that are past acquireSlot and have not released are at most
\* maxConcurrent, also when several calls were issued before any resumed.
C27_AtMostMaxConcurrent ==
  [][Running' \ Running # {} => Cardinality(Running') <= cm'.maxConcurrent]_vars

\* C28: adjustConcurrency(newLimit) with newLimit above the old limit wakes
\* waiters only up to the new limit: the calls it wakes, together with the
\* calls that are running, are at most newLimit, and the other waiters stay
\* queued.
C28_ResizeWakesUpToLimit ==
  [][cm'.maxConcurrent > cm.maxConcurrent =>
       LET woken == Len(cm.requestQueue) - Len(cm'.requestQueue)
       IN woken > 0 => Cardinality(Running) + woken <= cm'.maxConcurrent]_vars

\* the slots of the manager that no call holds
FreeSlots ==
  cm.maxConcurrent
    - Cardinality({t \in Tasks : cm.pc[t] \in {"acquired", "delay", "task"}})

\* C29: no call stays queued in acquireSlot for ever with a slot free and
\* the throttling cleared: whenever a call waits, it is later granted a slot,
\* or no slot is free, or throttling is active.
C29_WaiterEventuallyGranted ==
  \A t \in 1..MaxTasks :
    []<>~(/\ t \in Tasks
          /\ cm.pc[t] = "queued"
          /\ ~cm.throttle
          /\ FreeSlots > 0)

\* C30: a call that shouldBlock() rejects while the breaker is OPEN neither
\* restarts nor extends the cooldown: the instant the cooldown is measured
\* from, lastFailureTime, is the same after the rejection, so the breaker
\* turns HALF_OPEN timeoutMs after it opened whatever arrives meanwhile.
C30_RejectionKeepsCooldown ==
  [][(/\ Started
      /\ Breaker.state = "OPEN"
      /\ Len(results'.failed) = Len(results.failed) + 1
      /\ results'.failed[Len(results'.failed)].error = "CircuitOpen")
       => Breaker'.lastFailureTime = Breaker.lastFailureTime]_vars

\* ---------------------------------------------------------- retryAttempts
\* C31: a BatchProcessor built with retryAttempts = k makes at most k
\* attempts for an item, and an item whose every attempt fails transiently
\* (ServerError, ConnectionError) is reported after exactly k attempts.
C31_ConfiguredAttempts ==
  /\ [](\A f \in Items : attempt[f] <= bp.retryAttempts)
  /\ [][\A f \in Items :
          \A e \in {"ServerError", "ConnectionError"} :
            FailsWith(f, e) => attempt[f] = bp.retryAttempts]_vars

\* ------------------------------------------------------- getOptimalDelay
\* this step is a call of getOptimalDelay()
GetOptimalDelayReturns == rate'.returned # rate.returned

\* C32: getOptimalDelay scales the delay by latency alone: when the average
\* latency of the recent responses is above 3000 ms it returns 3 x baseDelay,
\* and when it is above 1500 ms, 2 x baseDelay (no more than maxDelay),
\* whether or not a failure was recorded in the last 30 s.
C32_DelayFollowsLatency ==
  [][GetOptimalDelayReturns =>
       LET rs == RecentResponses(rate.obj, now)
           D0 == rate.obj.baseDelay
       IN rs # <<>> =>
            /\ AvgResponseTimeAbove(rs, 3000)
                 => rate'.returned.delay = Min(rate.obj.maxDelay, 3 * D0)
            /\ (AvgResponseTimeAbove(rs, 1500) /\ ~AvgResponseTimeAbove(rs, 3000))
                 => rate'.returned.delay = Min(rate.obj.maxDelay, 2 * D0)]_vars

\* C33: whatever successes, failures and rate-limit hits were recorded, and
\* whatever baseDelay and maxDelay were configured, getOptimalDelay returns
\* no more than maxDelay.
C33_DelayAtMostMax ==
  (driver = "rate" /\ rate.returned.call > 0) => rate.returned.delay <= rate.obj.maxDelay

\* ----------------------------------------------------------------- chunks
\* the items whose processFileWithConcurrency is called in this step
Dispatched == {f \in Items : pc[f] = "new" /\ pc'[f] # "new"}

\* C34: processBatch dispatches the items in consecutive chunks of at most
\* 10 x maxConcurrent items, in input order: the items started in one step
\* are the next ones of the input, all of them up to 10 x maxConcurrent, and
\* every item before them has a terminal outcome.
C34_ChunkedDispatch ==
  [][Dispatched # {} =>
       /\ Cardinality(Dispatched) <= ChunkFactor * bp.maxConcurrent
       /\ \A f \in Dispatched : \A g \in 1..(f - 1) : g \in Dispatched \/ Terminal(g)
       /\ \A g \in Items \ Dispatched :
            pc[g] = "new" => /\ \A f \in Dispatched : f < g
                             /\ Cardinality(Dispatched) = ChunkFactor * bp.maxConcurrent]_vars

\* the second chunk of a batch is in progress
C34_Witness ==
  /\ driver = "chunks"
  /\ pcBatch = "awaiting"
  /\ loopI = ChunkFactor * bp.maxConcurrent
  /\ \A f \in 1..loopI : Terminal(f)
  /\ \E f \in Items : f > loopI /\ pc[f] = "request"

\* ---------------------------------------------------------------- metrics
\* C35: concurrentMetrics.peakConcurrency of the returned results is the
\* greatest number of items that were in flight together: at least 1 when an
\* item was compressed, and at most maxConcurrent.
C35_PeakConcurrencyReported ==
  (driver = "batch" /\ pcBatch = "returned") =>
    /\ results.concurrentMetrics.peakConcurrency <= bp.maxConcurrent
    /\ results.successful # <<>> => results.concurrentMetrics.peakConcurrency >= 1

\* ------------------------------------------------------ transform options
\* C36: every requested option reaches the service: the request built by
\* compressFile carries the resize when one was requested (options.resize
\* for a single file, options.maxSize in a batch), the conversion when one
\* was requested, and the metadata preservation when it was requested.
C36_AllOptionsSent ==
  (driver = "options" /\ req # <<>>) =>
    LET sent == {req[1].ops[k] : k \in 1..Len(req[1].ops)}
        resize == IF req[1].mode = "single" THEN options.resize ELSE options.maxSize
    IN /\ resize # Null => "resize" \in sent
       /\ options.convert # Null => "convert" \in sent
       /\ options.preserveMetadata => "preserve" \in sent

\* -------------------------------------------------------------- semaphore
\* C37: in every state of a batch 0 <= current <= maxConcurrent, current is
\* the number of calls that were granted a slot and have not released it,
\* and calls wait in the queue only while current = maxConcurrent.
C37_SemaphoreConsistent ==
  driver = "batch" =>
    /\ 0 <= bp.semaphore.current
    /\ bp.semaphore.current <= bp.semaphore.maxConcurrent
    /\ bp.semaphore.current = Cardinality(Holders)
    /\ bp.semaphore.queue # <<>> => bp.semaphore.current = bp.semaphore.maxConcurrent
    /\ \A f \in Items : InSeq(bp.semaphore.queue, f) <=> pc[f] = "queued"

\* a call has released its slot to a waiter while another call still waits
C37_Witness ==
  /\ driver = "batch"
  /\ bp.semaphore.queue # <<>>
  /\ \E f \in Items : Terminal(f)
  /\ \E f \in Holders : f > bp.semaphore.maxConcurrent

\* ------------------------------------------------------------- conversion
\* the path at which compressFile installed the result of entry e of
\* results.successful
InstalledAt(e) == IF build = "index.js" THEN e.file ELSE e.outputPath

\* C38: in a converting batch no two source files install their results at
\* the same output path, so no installed result is overwritten by another
\* item's.
C38_NoSharedOutputPath ==
  (driver = "convert" /\ Started) =>
    \A i, j \in 1..Len(results.successful) :
      i # j => InstalledAt(results.successful[i]) # InstalledAt(results.successful[j])

\* ------------------------------------------------- compressWithRetry alone
\* C39: whatever maxRetries is, zero and negative values included,
\* compressWithRetry returns a result or throws an error: it never completes
\* without an outcome.
C39_AlwaysAnOutcome ==
  driver = "cwr" => pc[1] # "undefined"

\* ------------------------------------------------------------------ stats
\* C40: on a BatchProcessor that runs one batch after another the progress
\* counters keep processed = successful + failed and processed <= totalFiles.
C40_StatsConsistent ==
  /\ bp.stats.processed = bp.stats.successful + bp.stats.failed
  /\ bp.stats.processed <= bp.stats.totalFiles

====
